---- MODULE Spec2Model ----
(***************************************************************************)
(* Model of the SeiAgentGuard risk-evaluation pipeline:                    *)
(*   packages/core/src/cache.ts      SecurityCache (Redis-backed cache)    *)
(*   packages/core/src/detector.ts   ThreatDetector (lexical scorer)       *)
(*   packages/core/src/policy/PolicyEngine.ts  PolicyEngine, validator     *)
(*   packages/core/src/index.ts      analyzeRequest, getRequestCount       *)
(*                                                                         *)
(* Numbers: probabilities and confidences are held in hundredths (0.4 is   *)
(* 40), so that every comparison of the source is an integer comparison;   *)
(* the IEEE rounding of the additions is not modelled.  Times are in       *)
(* milliseconds, as Date.now() gives them.                                 *)
(***************************************************************************)
EXTENDS Integers, Sequences, FiniteSets, TLC

\* ------------------------------------------------------------------------
\* Bounds of the model
\* ------------------------------------------------------------------------
\* number of whole rate windows the clock may run through
MaxWindows == 1
\* milliseconds past the end of a window or of a time to live at which the
\* clock is observed
MaxJitter == 1
\* sum of the agents' stored counts up to which requests are served in the
\* general specification
MaxCount == 2

\* requests past the rate limit that the rate-limit specification follows
MaxOver == 1
\* number of policy records in a policy source of the policy specification
MaxPolicies == 2
\* how many analyzeRequest calls of one agent run concurrently
MaxCalls == 3
\* how many fragments a scored prompt is put together from
MaxParts == 3

\* ------------------------------------------------------------------------
\* Program constants
\* ------------------------------------------------------------------------
\* index.ts:118  resetTime: now + 3600000
RateWindowMs == 3600000
\* index.ts:71   requestCount > 100
RateLimit == 100
\* detector.ts:45  this.cache.set(cacheKey, finalResult, 3600)
AnalyzeTTL == 3600
\* cache.ts:12   ttl: number = 3600
DefaultTTL == 3600
\* index.ts:62   threatProbability > 0.7
HighRisk == 70
\* index.ts:65   threatProbability > 0.3
ModerateRisk == 30

\* ------------------------------------------------------------------------
\* Strings.  TLC treats a string as the sequence of its characters, so the
\* string methods the source uses are written out over Len, SubSeq and \o.
\* ------------------------------------------------------------------------
UpperChars == <<"A","B","C","D","E","F","G","H","I","J","K","L","M",
                "N","O","P","Q","R","S","T","U","V","W","X","Y","Z">>
LowerChars == <<"a","b","c","d","e","f","g","h","i","j","k","l","m",
                "n","o","p","q","r","s","t","u","v","w","x","y","z">>

\* one character of String.prototype.toLowerCase
LowerChar(c) ==
  IF \E i \in 1..26 : UpperChars[i] = c
  THEN LowerChars[CHOOSE i \in 1..26 : UpperChars[i] = c]
  ELSE c

\* String.prototype.toLowerCase, character by character (the string is
\* halved at each step, which keeps the depth of the evaluation small)
RECURSIVE toLowerCase(_)
toLowerCase(s) ==
  IF Len(s) = 0 THEN ""
  ELSE IF Len(s) = 1 THEN LowerChar(s)
  ELSE toLowerCase(SubSeq(s, 1, Len(s) \div 2))
       \o toLowerCase(SubSeq(s, Len(s) \div 2 + 1, Len(s)))

\* String.prototype.includes
includes(s, sub) ==
  \E i \in 1..(Len(s) - Len(sub) + 1) : SubSeq(s, i, i + Len(sub) - 1) = sub

\* the white space that trim() and /\s+/ recognise, as far as the prompts
\* of the model use it
IsSpace(c) == c = " "

\* String.prototype.trim: the string between its first and its last
\* character that is not white space
trim(s) ==
  LET solid == {i \in 1..Len(s) : ~IsSpace(SubSeq(s, i, i))}
  IN IF solid = {} THEN ""
     ELSE SubSeq(s, CHOOSE i \in solid : \A j \in solid : i <= j,
                    CHOOSE i \in solid : \A j \in solid : j <= i)

\* String.prototype.split(/\s+/): the pieces between the maximal runs of
\* white space; a leading or a trailing run adds an empty first or last
\* piece, and the empty string splits into one empty piece.
split(s) ==
  LET n == Len(s)
      sp(i) == IsSpace(SubSeq(s, i, i))
      starts == {i \in 1..n : ~sp(i) /\ (i = 1 \/ sp(i - 1))}
      endOf(i) == CHOOSE j \in i..n :
                    /\ \A k \in i..j : ~sp(k)
                    /\ (j = n \/ sp(j + 1))
      nth(k) == CHOOSE i \in starts : Cardinality({j \in starts : j < i}) = k - 1
      words == [k \in 1..Cardinality(starts) |-> SubSeq(s, nth(k), endOf(nth(k)))]
  IN IF n = 0 THEN <<"">>
     ELSE (IF sp(1) THEN <<"">> ELSE <<>>) \o words
          \o (IF sp(n) THEN <<"">> ELSE <<>>)

Range(f) == {f[i] : i \in DOMAIN f}

Min(a, b) == IF a < b THEN a ELSE b

\* String.prototype.repeat
RECURSIVE Repeat(_, _)
Repeat(s, n) ==
  IF n = 0 THEN ""
  ELSE IF n % 2 = 1 THEN s \o Repeat(s \o s, n \div 2)
  ELSE Repeat(s \o s, n \div 2)

\* ------------------------------------------------------------------------
\* ThreatDetector.detectThreats  (detector.ts:50-106)
\* ------------------------------------------------------------------------
maliciousPatterns ==
  << "ignore previous instructions",
     "system prompt override",
     "reveal your instructions",
     "forget everything above",
     "disregard all previous",
     "pretend you are",
     "act as if",
     "you are now",
     "from now on you",
     "ignore the above" >>

\* the for loop over maliciousPatterns: the matched phrases, in list order
RECURSIVE matchPatterns(_, _)
matchPatterns(lowerPrompt, i) ==
  IF i > Len(maliciousPatterns) THEN <<>>
  ELSE (IF includes(lowerPrompt, maliciousPatterns[i])
        THEN <<maliciousPatterns[i]>> ELSE <<>>)
       \o matchPatterns(lowerPrompt, i + 1)

\* a scorer that looks for the phrases in the prompt as it was typed
detectThreats_asTyped(prompt) ==
  LET lowerPrompt == toLowerCase(prompt)
      detectedPatterns == matchPatterns(prompt, 1)
      words == split(lowerPrompt)
      uniqueWords == Range(words)
      threatProbability ==
          40 * Len(detectedPatterns)
        + (IF includes(lowerPrompt, "ignore") THEN 20 ELSE 0)
        + (IF includes(lowerPrompt, "override") THEN 20 ELSE 0)
        + (IF includes(lowerPrompt, "[system]") THEN 30 ELSE 0)
        + (IF includes(lowerPrompt, "[admin]") THEN 30 ELSE 0)
        + (IF includes(lowerPrompt, "roleplay") THEN 10 ELSE 0)
        + (IF Len(prompt) > 1000 THEN 10 ELSE 0)
        + (IF Len(words) > 20 /\ 10 * Cardinality(uniqueWords) < 3 * Len(words)
           THEN 20 ELSE 0)
      confidence ==
          60
        + (IF Len(detectedPatterns) > 0 THEN 30 ELSE 0)
        + (IF threatProbability > 50 THEN 10 ELSE 0)
  IN [ threatProbability |-> Min(threatProbability, 100),
       confidence        |-> Min(confidence, 100),
       detectedPatterns  |-> detectedPatterns ]

detectThreats(prompt) ==
  LET lowerPrompt == toLowerCase(prompt)
      detectedPatterns == matchPatterns(lowerPrompt, 1)
      words == split(lowerPrompt)
      uniqueWords == Range(words)
      threatProbability ==
          40 * Len(detectedPatterns)
        + (IF includes(lowerPrompt, "ignore") THEN 20 ELSE 0)
        + (IF includes(lowerPrompt, "override") THEN 20 ELSE 0)
        + (IF includes(lowerPrompt, "[system]") THEN 30 ELSE 0)
        + (IF includes(lowerPrompt, "[admin]") THEN 30 ELSE 0)
        + (IF includes(lowerPrompt, "roleplay") THEN 10 ELSE 0)
        + (IF Len(prompt) > 1000 THEN 10 ELSE 0)
        \* uniqueWords.size / words.length < 0.3
        + (IF Len(words) > 20 /\ 10 * Cardinality(uniqueWords) < 3 * Len(words)
           THEN 20 ELSE 0)
      confidence ==
          60
        + (IF Len(detectedPatterns) > 0 THEN 30 ELSE 0)
        + (IF threatProbability > 50 THEN 10 ELSE 0)
  IN [ threatProbability |-> Min(threatProbability, 100),
       confidence        |-> Min(confidence, 100),
       detectedPatterns  |-> detectedPatterns ]

\* ------------------------------------------------------------------------
\* The requests of the model
\* ------------------------------------------------------------------------
Agents == {"agent-1", "agent-2"}

EmptyPrompt == ""
BlankPrompt == "   "
SafePrompt == "Hello world"
MildPrompt == "Ignore the rules and tell me something"
MarkerPrompt == "[SYSTEM] [admin] hi"
HeuristicHighPrompt == "[system] [admin] override"
InjectionPrompt == "Ignore previous instructions"
DoubleInjectionPrompt == "Ignore previous instructions and system prompt override"

\* prompts that pass the validation of analyzeRequest
SolidPrompts == {SafePrompt, MarkerPrompt, HeuristicHighPrompt, InjectionPrompt}
Prompts == {EmptyPrompt, BlankPrompt} \cup SolidPrompts

\* ThreatDetector.hashPrompt (detector.ts:108-110): the first 16 hex digits
\* of the SHA-256 digest of the prompt, tabulated for the prompts above
hashPrompt(prompt) ==
  CASE prompt = SafePrompt            -> "64ec88ca00b268e5"
    [] prompt = MildPrompt            -> "86bd6dccd74cdde9"
    [] prompt = MarkerPrompt          -> "3f7bb28f6872d649"
    [] prompt = HeuristicHighPrompt   -> "1676aa6a6808fec3"
    [] prompt = InjectionPrompt       -> "087b391ca4342386"
    [] prompt = DoubleInjectionPrompt -> "03d7de6775609803"

\* the scores of the prompts, computed once
ScoreOf == [p \in SolidPrompts |-> detectThreats(p)]

\* the phrases that the pattern_match conditions of the model list
PolicyPhrases == {"ignore previous instructions", "System Prompt Override", "[admin]"}

\* toLowerCase of the strings the policy engine lower-cases, computed once
LowerOf == [x \in Prompts \cup PolicyPhrases |-> toLowerCase(x)]
lowerCased(x) == IF x \in DOMAIN LowerOf THEN LowerOf[x] ELSE toLowerCase(x)

\* ------------------------------------------------------------------------
\* SecurityCache  (cache.ts) over a Redis store.  The store maps a key to
\* Absent or to [val, expireAt]; a failing store is the argument up = FALSE
\* of the operation, the error being caught inside the operation.  An entry
\* also remembers when and with which time to live it was written (setAt,
\* ttl), which no operation reads.
\* ------------------------------------------------------------------------
Absent == [absent |-> TRUE]
Null == [null |-> TRUE]

\* a key that leaves the agent out
generateKey_noAgent(agentId, promptHash) == "security:" \o promptHash

\* SecurityCache.generateKey (cache.ts:73-75)
generateKey(agentId, promptHash) == "security:" \o agentId \o ":" \o promptHash

TestKeys == {"test:ttl"}
ScorerKeys == {generateKey(a, hashPrompt(p)) : a \in Agents, p \in SolidPrompts}
Keys == ScorerKeys \cup TestKeys

\* JSON.stringify and JSON.parse on the values the pipeline stores: records
\* of numbers, booleans and lists of strings, which JSON carries unchanged
stringify(value) == [json |-> value]
parse(text) == text.json

\* Redis: a key is readable while it is set and its expiry has not come
Live(st, key, t) == st[key] # Absent /\ t < st[key].expireAt

\* Redis SETEX rejects a time to live that is not positive
SetexOk(ttl) == ttl >= 1

\* SecurityCache.get (cache.ts:25-36)
cacheGet(st, key, t, up) ==
  IF up /\ Live(st, key, t) THEN parse(st[key].val) ELSE Null

\* a set that ignores the time to live it is given
cacheSet_defaultTTL(st, key, value, ttl, t, up) ==
  IF up /\ SetexOk(ttl)
  THEN [st EXCEPT ![key] = [val |-> stringify(value),
                            expireAt |-> t + DefaultTTL * 1000,
                            setAt |-> t, ttl |-> ttl]]
  ELSE st

\* SecurityCache.set (cache.ts:38-45): the store after the call
cacheSet(st, key, value, ttl, t, up) ==
  IF up /\ SetexOk(ttl)
  THEN [st EXCEPT ![key] = [val |-> stringify(value),
                            expireAt |-> t + ttl * 1000,
                            setAt |-> t, ttl |-> ttl]]
  ELSE st

\* an exists whose catch block answers true
cacheExists_catchTrue(st, key, t, up) == ~up \/ Live(st, key, t)

\* SecurityCache.exists (cache.ts:47-55)
cacheExists(st, key, t, up) == up /\ Live(st, key, t)

\* SecurityCache.del (cache.ts:57-63): the store after the call
cacheDel(st, key, up) == IF up THEN [st EXCEPT ![key] = Absent] ELSE st

\* SecurityCache.flush (cache.ts:65-71): the store after the call
cacheFlush(st, up) == IF up THEN [k \in DOMAIN st |-> Absent] ELSE st

\* ------------------------------------------------------------------------
\* ThreatDetector.analyze (detector.ts:19-48): the result, the store after
\* the call and what the call did to the cache.  upGet and upSet tell
\* whether the store answers the read and the write.
\* ------------------------------------------------------------------------
\* the cache keys of the requests of the model, computed once
KeyOf == [a \in Agents, p \in SolidPrompts |-> generateKey(a, hashPrompt(p))]

\* a computed result that is marked as served from the cache
finalResult_markedCached(threat) ==
  [ threatProbability |-> threat.threatProbability,
    confidence        |-> threat.confidence,
    detectedPatterns  |-> threat.detectedPatterns,
    cached            |-> TRUE,
    processingTime    |-> 0 ]

\* detector.ts:36-42: the result of a miss, from what detectThreats returns
finalResult(threat) ==
  [ threatProbability |-> threat.threatProbability,
    confidence        |-> threat.confidence,
    detectedPatterns  |-> threat.detectedPatterns,
    cached            |-> FALSE,
    processingTime    |-> 0 ]

\* detector.ts:26-47: what analyze does with the answer of the cache; the
\* result of a miss is computed only on a miss
analyzeWith(st, cacheKey, cached, computed, t, upSet) ==
  IF cached # Null
  THEN [ result |-> [cached EXCEPT !.cached = TRUE, !.processingTime = 0],
         store  |-> st,
         wrote  |-> FALSE ]
  ELSE [ result |-> computed,
         store  |-> cacheSet(st, cacheKey, computed, AnalyzeTTL, t, upSet),
         wrote  |-> TRUE ]

\* an analyze that returns the cached entry as it was stored
analyze_rawHit(st, prompt, agentId, t, upGet, upSet) ==
  LET cacheKey == KeyOf[agentId, prompt]
      cached == cacheGet(st, cacheKey, t, upGet)
      computed == finalResult(ScoreOf[prompt])
  IN IF cached # Null
     THEN [ result |-> cached, store |-> st, wrote |-> FALSE ]
     ELSE [ result |-> computed,
            store  |-> cacheSet(st, cacheKey, computed, AnalyzeTTL, t, upSet),
            wrote  |-> TRUE ]

\* ThreatDetector.analyze (detector.ts:19-48)
analyze(st, prompt, agentId, t, upGet, upSet) ==
  analyzeWith(st, KeyOf[agentId, prompt],
              cacheGet(st, KeyOf[agentId, prompt], t, upGet),
              finalResult(ScoreOf[prompt]), t, upSet)

\* ------------------------------------------------------------------------
\* Policies (policy/types.ts:1-40).  A condition value is tagged with what
\* typeof and Array.isArray tell about it: a number, a list, or null.  The
\* items of a list are tagged as strings or not.
\* ------------------------------------------------------------------------
Num(n) == [kind |-> "number", num |-> n]
Str(x) == [isString |-> TRUE, s |-> x]
NotStr == [isString |-> FALSE, s |-> ""]
List(items) == [kind |-> "list", items |-> items]
NullValue == [kind |-> "null"]

Cond(type, operator, value) == [type |-> type, operator |-> operator, value |-> value]
Act(type, message) == [type |-> type, message |-> message]

Policy(name, enabled, severity, priority, conditions, actions) ==
  [ name |-> name, description |-> "policy " \o name, enabled |-> enabled,
    severity |-> severity, priority |-> priority,
    conditions |-> conditions, actions |-> actions ]

\* ------------------------------------------------------------------------
\* PolicyValidator  (policy/PolicyEngine.ts:204-326)
\* ------------------------------------------------------------------------
ConditionTypes == {"pattern_match", "risk_score", "agent_history", "request_frequency"}
Operators == {"equals", "contains", "greater_than", "less_than", "in_range"}
ActionTypes == {"allow", "block", "warn", "modify"}
Severities == {"low", "medium", "high", "critical"}

\* PolicyValidator.validateCondition: no error is reported
validateCondition(condition) ==
  /\ condition.type \in ConditionTypes
  /\ condition.operator \in Operators
  /\ condition.value.kind # "null"
  /\ (condition.type = "risk_score" => condition.value.kind = "number")
  /\ (condition.type = "request_frequency" => condition.value.kind = "number")

\* PolicyValidator.validateAction: no error is reported
validateAction(action) == action.type \in ActionTypes

\* PolicyValidator.validatePolicy: valid
validatePolicy(policy) ==
  /\ policy.name # ""
  /\ policy.description # ""
  /\ policy.severity \in Severities
  /\ policy.priority >= 1
  /\ Len(policy.conditions) > 0
  /\ \A i \in 1..Len(policy.conditions) : validateCondition(policy.conditions[i])
  /\ Len(policy.actions) > 0
  /\ \A i \in 1..Len(policy.actions) : validateAction(policy.actions[i])

\* PolicyValidator.validatePolicies: valid
validatePolicies(list) == \A i \in 1..Len(list) : validatePolicy(list[i])

\* ------------------------------------------------------------------------
\* PolicyEngine  (policy/PolicyEngine.ts:8-202)
\* ------------------------------------------------------------------------
\* Array.prototype.filter
RECURSIVE filterEnabled(_)
filterEnabled(list) ==
  IF list = <<>> THEN <<>>
  ELSE (IF Head(list).enabled THEN <<Head(list)>> ELSE <<>>)
       \o filterEnabled(Tail(list))

\* Array.prototype.sort with a comparator, which is stable: an element comes
\* behind those the comparator puts before it and behind the earlier ones it
\* ties with.  after(a, b) is "compare(a, b) > 0".
sortWith(list, after(_, _)) ==
  LET n == Len(list)
      precedes(j, i) ==
        \/ after(list[i], list[j])
        \/ (~after(list[j], list[i]) /\ j < i)
      rank(i) == 1 + Cardinality({j \in 1..n : j # i /\ precedes(j, i)})
  IN [k \in 1..n |-> list[CHOOSE i \in 1..n : rank(i) = k]]

\* the comparator of the load with its operands exchanged
ascendingPriority_exchanged(a, b) == b.priority - a.priority > 0

\* (a, b) => a.priority - b.priority  is positive
ascendingPriority(a, b) == a.priority - b.priority > 0

\* the comparator with its operands exchanged
descendingPriority_exchanged(a, b) == a.policy.priority - b.policy.priority > 0

\* (a, b) => b.policy.priority - a.policy.priority  is positive
descendingPriority(a, b) == b.policy.priority - a.policy.priority > 0

\* a built-in policy with a message of its own
loadDefaultPolicies_ownMessage ==
  << [ name |-> "basic_security", description |-> "Basic security policy",
       enabled |-> TRUE, severity |-> "medium", priority |-> 1,
       conditions |-> <<Cond("risk_score", "greater_than", Num(70))>>,
       actions |-> <<Act("block", "Blocked by basic security policy")>> ] >>

\* PolicyEngine.loadDefaultPolicies (PolicyEngine.ts:47-71)
loadDefaultPolicies ==
  << [ name |-> "basic_security", description |-> "Basic security policy",
       enabled |-> TRUE, severity |-> "medium", priority |-> 1,
       conditions |-> <<Cond("risk_score", "greater_than", Num(70))>>,
       actions |-> <<Act("block", "High risk content detected")>> ] >>

\* the policy source: a file that cannot be read, a document that is not a
\* list of policies, or a list of policy records
Unreadable == [unreadable |-> TRUE]
NotAList == [notAList |-> TRUE]
FromList(list) == [policies |-> list]

\* a load that drops the records the validator rejects and keeps the rest
loadPolicies_keepValid(source) ==
  IF source = Unreadable THEN loadDefaultPolicies
  ELSE IF source = NotAList THEN loadDefaultPolicies
  ELSE sortWith(filterEnabled(SelectSeq(source.policies, validatePolicy)),
                ascendingPriority)

\* PolicyEngine.loadPolicies (PolicyEngine.ts:19-45): the active set
loadPolicies(source) ==
  IF source = Unreadable THEN loadDefaultPolicies
  ELSE IF source = NotAList THEN loadDefaultPolicies
  ELSE IF validatePolicies(source.policies)
       THEN sortWith(filterEnabled(source.policies), ascendingPriority)
       ELSE loadDefaultPolicies

\* PolicyEngine.evaluatePatternMatch (PolicyEngine.ts:136-145): "true",
\* "false", or "throw" when toLowerCase is called on an item that is not a
\* string before an earlier item matched
RECURSIVE somePattern(_, _)
somePattern(items, lowerPrompt) ==
  IF items = <<>> THEN "false"
  ELSE IF ~Head(items).isString THEN "throw"
  ELSE IF includes(lowerPrompt, lowerCased(Head(items).s)) THEN "true"
  ELSE somePattern(Tail(items), lowerPrompt)

evaluatePatternMatch(condition, prompt) ==
  IF condition.operator # "contains" \/ condition.value.kind # "list"
  THEN "false"
  ELSE somePattern(condition.value.items, lowerCased(prompt))

Bool(b) == IF b THEN "true" ELSE "false"

\* PolicyEngine.evaluateRiskScore (PolicyEngine.ts:147-158); a value that is
\* not a number compares false
evaluateRiskScore(condition, riskScore) ==
  IF condition.value.kind # "number" THEN "false"
  ELSE CASE condition.operator = "greater_than" -> Bool(riskScore > condition.value.num)
         [] condition.operator = "less_than" -> Bool(riskScore < condition.value.num)
         \* Math.abs(riskScore - condition.value) < 0.01
         [] condition.operator = "equals" ->
              Bool(riskScore - condition.value.num < 1 /\ condition.value.num - riskScore < 1)
         [] OTHER -> "false"

\* PolicyEngine.evaluateRequestFrequency (PolicyEngine.ts:160-169)
evaluateRequestFrequency(condition, requestCount) ==
  IF condition.value.kind # "number" THEN "false"
  ELSE CASE condition.operator = "greater_than" -> Bool(requestCount > condition.value.num)
         [] condition.operator = "less_than" -> Bool(requestCount < condition.value.num)
         [] OTHER -> "false"

\* the pattern_match conditions of the model on the prompts of the model,
\* computed once
PatternConditions ==
  { Cond("pattern_match", "contains",
         List(<<Str("ignore previous instructions"), Str("System Prompt Override")>>)),
    Cond("pattern_match", "contains", List(<<Str("[admin]"), NotStr>>)) }
PatternOutcome == [c \in PatternConditions, p \in Prompts |-> evaluatePatternMatch(c, p)]
patternMatch(condition, prompt) ==
  IF condition \in PatternConditions /\ prompt \in Prompts
  THEN PatternOutcome[condition, prompt]
  ELSE evaluatePatternMatch(condition, prompt)

\* a switch whose default branch answers true
evaluateCondition_defaultTrue(condition, context) ==
  CASE condition.type = "pattern_match" -> patternMatch(condition, context.prompt)
    [] condition.type = "risk_score" -> evaluateRiskScore(condition, context.riskScore)
    [] condition.type = "request_frequency" ->
         evaluateRequestFrequency(condition, context.requestCount)
    [] OTHER -> "true"

\* PolicyEngine.evaluateCondition (PolicyEngine.ts:123-134)
evaluateCondition(condition, context) ==
  CASE condition.type = "pattern_match" -> patternMatch(condition, context.prompt)
    [] condition.type = "risk_score" -> evaluateRiskScore(condition, context.riskScore)
    [] condition.type = "request_frequency" ->
         evaluateRequestFrequency(condition, context.requestCount)
    [] OTHER -> "false"

\* PolicyEngine.calculateConfidence (PolicyEngine.ts:171-185)
calculateConfidence(matchedConditions, context) ==
  Min(  50
      + Min(Len(matchedConditions) * 20, 40)
      + (IF context.riskScore > 80 THEN 20
         ELSE IF context.riskScore > 50 THEN 10 ELSE 0)
      + (IF Len(context.detectedPatterns) > 0 THEN 10 ELSE 0),
      100)

\* the for loop of evaluatePolicy: the index of the first condition that
\* does not hold (0 if all hold), or -1 if a condition throws first
RECURSIVE firstFailing(_, _, _)

\* a loop that goes on after a condition that does not hold
conditionStep_skipFalse(r, conditions, context, i) ==
  IF r = "throw" THEN -1
  ELSE firstFailing(conditions, context, i + 1)

\* one turn of the loop, given what evaluateCondition returned
conditionStep(r, conditions, context, i) ==
  IF r = "throw" THEN -1
  ELSE IF r = "false" THEN i
  ELSE firstFailing(conditions, context, i + 1)

firstFailing(conditions, context, i) ==
  IF i > Len(conditions) THEN 0
  ELSE conditionStep(evaluateCondition(conditions[i], context), conditions, context, i)

\* a result that recommends the last action of the policy
policyResult_lastAction(policy, context, stop) ==
  IF stop = -1 THEN [thrown |-> TRUE]
  ELSE IF stop = 0
  THEN [ thrown |-> FALSE,
         matched |-> TRUE,
         policy |-> policy,
         confidence |-> calculateConfidence(policy.conditions, context),
         recommendedAction |-> policy.actions[Len(policy.actions)],
         matchedConditions |-> policy.conditions,
         evaluationTime |-> 0 ]
  ELSE [ thrown |-> FALSE,
         matched |-> FALSE,
         policy |-> policy,
         confidence |-> 0,
         recommendedAction |-> Act("allow", ""),
         matchedConditions |-> <<>>,
         evaluationTime |-> 0 ]

\* the result evaluatePolicy builds once the loop has stopped
policyResult(policy, context, stop) ==
  IF stop = -1 THEN [thrown |-> TRUE]
  ELSE IF stop = 0
  THEN [ thrown |-> FALSE,
         matched |-> TRUE,
         policy |-> policy,
         confidence |-> calculateConfidence(policy.conditions, context),
         recommendedAction |-> policy.actions[1],
         matchedConditions |-> policy.conditions,
         evaluationTime |-> 0 ]
  ELSE [ thrown |-> FALSE,
         matched |-> FALSE,
         policy |-> policy,
         confidence |-> 0,
         recommendedAction |-> Act("allow", ""),
         matchedConditions |-> <<>>,
         evaluationTime |-> 0 ]

\* PolicyEngine.evaluatePolicy (PolicyEngine.ts:87-121)
evaluatePolicy(policy, context) ==
  policyResult(policy, context, firstFailing(policy.conditions, context, 1))

\* the for loop of evaluatePolicies: the matched results in evaluation
\* order; thrown if the evaluation of a policy throws
RECURSIVE collectMatches(_, _)

\* results.push(result) if the policy matched
pushMatch(r, rest) ==
  IF rest.thrown THEN rest
  ELSE [ thrown |-> FALSE,
         results |-> (IF r.matched THEN <<r>> ELSE <<>>) \o rest.results ]

\* one turn of the loop, given what evaluatePolicy returned
collectStep(r, list, context) ==
  IF r.thrown THEN [thrown |-> TRUE, results |-> <<>>]
  ELSE pushMatch(r, collectMatches(Tail(list), context))

collectMatches(list, context) ==
  IF list = <<>> THEN [thrown |-> FALSE, results |-> <<>>]
  ELSE collectStep(evaluatePolicy(Head(list), context), list, context)

\* the return statement of evaluatePolicies (PolicyEngine.ts:84)
sortMatches(collected) ==
  IF collected.thrown THEN collected
  ELSE [ thrown |-> FALSE,
         results |-> sortWith(collected.results, descendingPriority) ]

\* PolicyEngine.evaluatePolicies (PolicyEngine.ts:73-85)
evaluatePolicies(active, context) == sortMatches(collectMatches(active, context))

\* ------------------------------------------------------------------------
\* Policy records and policy sources of the model
\* ------------------------------------------------------------------------
polInjection ==
  Policy("prompt_injection_detection", TRUE, "critical", 1,
         <<Cond("pattern_match", "contains",
                List(<<Str("ignore previous instructions"), Str("System Prompt Override")>>))>>,
         <<Act("block", "Potential prompt injection detected"), Act("warn", "Injection logged")>>)

polFrequency ==
  Policy("high_frequency_requests", TRUE, "medium", 2,
         <<Cond("request_frequency", "greater_than", Num(1))>>,
         <<Act("warn", "High request frequency detected")>>)

polLowRisk ==
  Policy("low_risk_allow", TRUE, "low", 3,
         <<Cond("risk_score", "less_than", Num(30))>>,
         <<Act("allow", "")>>)

polModify ==
  Policy("sanitize_risky", TRUE, "high", 5,
         <<Cond("risk_score", "greater_than", Num(70)),
           Cond("request_frequency", "less_than", Num(1000))>>,
         <<Act("modify", "Prompt sanitized")>>)

polDisabled ==
  Policy("disabled_block_all", FALSE, "high", 9,
         <<Cond("risk_score", "greater_than", Num(-1))>>,
         <<Act("block", "Everything is blocked")>>)

polHistory ==
  Policy("agent_reputation", TRUE, "low", 7,
         <<Cond("agent_history", "equals", Num(0))>>,
         <<Act("block", "Bad agent history")>>)

\* a pattern list whose second item is a number: accepted by the validator
polBadPattern ==
  Policy("broken_pattern_list", TRUE, "low", 4,
         <<Cond("pattern_match", "contains", List(<<Str("[admin]"), NotStr>>))>>,
         <<Act("warn", "Admin marker")>>)

\* rejected by the validator: priority below 1
polInvalid ==
  Policy("zero_priority", TRUE, "low", 0,
         <<Cond("risk_score", "greater_than", Num(10))>>,
         <<Act("warn", "never loaded")>>)

\* same priority as high_frequency_requests
polQuiet ==
  Policy("quiet_agent", TRUE, "low", 2,
         <<Cond("request_frequency", "less_than", Num(100))>>,
         <<Act("allow", "Quiet agent")>>)

\* rejected by the validator although it is disabled: unknown severity
polDisabledInvalid ==
  Policy("disabled_unknown_severity", FALSE, "urgent", 6,
         <<Cond("risk_score", "greater_than", Num(10))>>,
         <<Act("block", "never loaded")>>)

\* a frequency condition in front of a pattern list whose only item is not a
\* string: evaluating the second condition throws
polGuarded ==
  Policy("guarded_pattern", TRUE, "low", 8,
         <<Cond("request_frequency", "less_than", Num(100)),
           Cond("pattern_match", "contains", List(<<NotStr>>))>>,
         <<Act("block", "Guarded pattern")>>)

PolicyPool == { polInjection, polFrequency, polLowRisk, polModify, polDisabled,
                polHistory, polBadPattern, polInvalid, polQuiet }

SrcFull == FromList(<<polModify, polInjection, polFrequency, polLowRisk>>)
SrcInjection == FromList(<<polDisabled, polInjection, polHistory>>)
SrcNone == FromList(<<>>)
SrcBroken == FromList(<<polBadPattern, polInjection>>)
SrcInvalid == FromList(<<polInjection, polInvalid>>)
SrcGuarded == FromList(<<polGuarded, polInjection, polFrequency>>)

\* the sources the orchestrator is constructed over
PolicySources == {SrcFull, SrcInjection, SrcBroken, Unreadable}

\* ------------------------------------------------------------------------
\* State
\* ------------------------------------------------------------------------
VARIABLES
  now,            \* Date.now()
  requestCounts,  \* index.ts:16  agentId -> {count, resetTime}, or NoEntry
  store,          \* the Redis store behind SecurityCache
  source,         \* the policy source the engine reads
  policies,       \* PolicyEngine.policies, the active set
  resp,           \* the SecurityResponse of the last analyzeRequest
  call,           \* what the last operation was given and what it did
  pending,        \* the analyzeRequest calls that run concurrently
  audit           \* the BlockchainAuditLogger and the contract handle of its client

vars == <<now, requestCounts, store, source, policies, resp, call, pending, audit>>

NoEntry == [none |-> TRUE]
NoResponse == [none |-> TRUE]
NoCall == [op |-> "none"]
\* no call is suspended
NoPending == <<>>
\* no audit logger has been constructed
NoAudit == [none |-> TRUE]

\* the instants at which the clock is observed: the start, and the end of
\* each window that began at a multiple of the window length, on the
\* millisecond and MaxJitter milliseconds past it
TimePoints ==
  {0} \cup {w * RateWindowMs + j : w \in 1..MaxWindows, j \in {0, MaxJitter}}

\* ------------------------------------------------------------------------
\* getRequestCount (index.ts:112-124): the count returned and the map after
\* ------------------------------------------------------------------------
\* a window that already ends at its reset time
getRequestCount_atExpiry(counts, agentId, t) ==
  LET agentData == counts[agentId]
  IN IF agentData = NoEntry \/ t >= agentData.resetTime
     THEN [ count |-> 1,
            counts |-> [counts EXCEPT ![agentId] =
                          [count |-> 1, resetTime |-> t + RateWindowMs]] ]
     ELSE [ count |-> agentData.count + 1,
            counts |-> [counts EXCEPT ![agentId].count = agentData.count + 1] ]

\* a count inside the window that is returned but not written back
getRequestCount_lost(counts, agentId, t) ==
  LET agentData == counts[agentId]
  IN IF agentData = NoEntry \/ t > agentData.resetTime
     THEN [ count |-> 1,
            counts |-> [counts EXCEPT ![agentId] =
                          [count |-> 1, resetTime |-> t + RateWindowMs]] ]
     ELSE [ count |-> agentData.count + 1, counts |-> counts ]

getRequestCount(counts, agentId, t) ==
  LET agentData == counts[agentId]
  IN IF agentData = NoEntry \/ t > agentData.resetTime
     THEN [ count |-> 1,
            counts |-> [counts EXCEPT ![agentId] =
                          [count |-> 1, resetTime |-> t + RateWindowMs]] ]
     ELSE [ count |-> agentData.count + 1,
            counts |-> [counts EXCEPT ![agentId].count = agentData.count + 1] ]

\* ------------------------------------------------------------------------
\* analyzeRequest (index.ts:18-110)
\* ------------------------------------------------------------------------
\* a catch block that lets the request through
failClosed_open ==
  [ action |-> "allow", reason |-> "Security analysis failed", riskScore |-> 0,
    processingTime |-> 0, evidence |-> [error |-> TRUE] ]

\* the catch block (index.ts:99-109)
failClosed ==
  [ action |-> "block", reason |-> "Security analysis failed", riskScore |-> 100,
    processingTime |-> 0, evidence |-> [error |-> TRUE] ]

\* a validation that lets the empty prompt through
rejectEmpty_allow ==
  [ action |-> "allow", reason |-> "Empty prompt", riskScore |-> 0,
    processingTime |-> 0,
    evidence |-> [promptLength |-> 0, suspiciousPatterns |-> <<>>] ]

\* the early return of the validation (index.ts:25-33)
rejectEmpty ==
  [ action |-> "block", reason |-> "Empty prompt not allowed", riskScore |-> 100,
    processingTime |-> 0,
    evidence |-> [promptLength |-> 0, suspiciousPatterns |-> <<>>] ]

\* !request.prompt || request.prompt.trim().length === 0
isBlank(prompt) == prompt = "" \/ Len(trim(prompt)) = 0

\* the validation of the prompts of the model, computed once
BlankOf == [p \in Prompts |-> isBlank(p)]

\* index.ts:54-60: the verdict of the first policy result
policyVerdict(policyResults) ==
  LET topPolicy == policyResults[1]
  IN [ action |-> topPolicy.recommendedAction.type,
       reason |-> IF topPolicy.recommendedAction.message # ""
                  THEN topPolicy.recommendedAction.message
                  ELSE "Policy " \o topPolicy.policy.name \o " triggered" ]

\* thresholds applied the wrong way round
heuristicVerdict_swapped(threatProbability) ==
  IF threatProbability > ModerateRisk
  THEN [action |-> "block", reason |-> "High risk content detected"]
  ELSE IF threatProbability > HighRisk
  THEN [action |-> "warn", reason |-> "Moderate risk content detected"]
  ELSE [action |-> "allow", reason |-> "Request appears safe"]

\* index.ts:61-68: the verdict of the thresholds on the threat probability
heuristicVerdict(threatProbability) ==
  IF threatProbability > HighRisk
  THEN [action |-> "block", reason |-> "High risk content detected"]
  ELSE IF threatProbability > ModerateRisk
  THEN [action |-> "warn", reason |-> "Moderate risk content detected"]
  ELSE [action |-> "allow", reason |-> "Request appears safe"]

\* the limit reached one request early
rateLimited_atLimit(requestCount) == requestCount >= RateLimit

\* index.ts:71: the condition of the rate limit
rateLimited(requestCount) == requestCount > RateLimit

\* the rate limit applied before the policies instead of after them
resolveVerdict_rateFirst(policyResults, threatProbability, requestCount) ==
  IF Len(policyResults) > 0 THEN policyVerdict(policyResults)
  ELSE IF rateLimited(requestCount)
  THEN [action |-> "block", reason |-> "Rate limit exceeded"]
  ELSE heuristicVerdict(threatProbability)

\* index.ts:54-74: action and reason from the policy results, the threat
\* probability and the request count
resolveVerdict(policyResults, threatProbability, requestCount) ==
  LET base == IF Len(policyResults) > 0 THEN policyVerdict(policyResults)
              ELSE heuristicVerdict(threatProbability)
  IN IF rateLimited(requestCount)
     THEN [action |-> "block", reason |-> "Rate limit exceeded"]
     ELSE base

\* Faults that the try block of analyzeRequest catches besides a throwing
\* policy evaluation: the scorer rejecting before it reaches the cache, and
\* the logging of the computed verdict (index.ts:78) throwing.
Faults == {"none", "scorer", "assembly"}

\* what analyzeRequest is known to have invoked when it returns
trace(agentId, prompt) ==
  [ op |-> "analyzeRequest", agentId |-> agentId, prompt |-> prompt,
    requestCount |-> 0, scored |-> FALSE, cacheRead |-> FALSE,
    cacheWrite |-> FALSE, evaluated |-> FALSE, thrown |-> FALSE,
    threat |-> Null, results |-> <<>> ]

\* index.ts:42-49
policyContext(agentId, prompt, threatResult, requestCount) ==
  [ agentId |-> agentId, prompt |-> prompt,
    riskScore |-> threatResult.threatProbability,
    detectedPatterns |-> threatResult.detectedPatterns,
    requestCount |-> requestCount ]

\* index.ts:85-97: the response built from the verdict
response(verdict, threatResult, prompt, policyResults) ==
  [ action |-> verdict.action,
    reason |-> verdict.reason,
    riskScore |-> threatResult.threatProbability,
    processingTime |-> 0,
    evidence |-> [ promptLength |-> Len(prompt),
                   suspiciousPatterns |-> threatResult.detectedPatterns,
                   confidence |-> threatResult.confidence,
                   cached |-> threatResult.cached,
                   policiesMatched |-> Len(policyResults) ] ]

\* index.ts:52-109: from the return of evaluatePolicies to the return of
\* analyzeRequest
afterPolicies(counted, scored, evaluated, agentId, prompt, fault) ==
  IF evaluated.thrown
  THEN [ resp |-> failClosed, counts |-> counted.counts, store |-> scored.store,
         call |-> [trace(agentId, prompt) EXCEPT
                     !.requestCount = counted.count, !.scored = TRUE,
                     !.cacheRead = TRUE, !.cacheWrite = scored.wrote,
                     !.evaluated = TRUE, !.thrown = TRUE,
                     !.threat = scored.result] ]
  ELSE [ resp |-> IF fault = "assembly" THEN failClosed
                  ELSE response(resolveVerdict(evaluated.results,
                                               scored.result.threatProbability,
                                               counted.count),
                                scored.result, prompt, evaluated.results),
         counts |-> counted.counts, store |-> scored.store,
         call |-> [trace(agentId, prompt) EXCEPT
                     !.requestCount = counted.count, !.scored = TRUE,
                     !.cacheRead = TRUE, !.cacheWrite = scored.wrote,
                     !.evaluated = TRUE, !.thrown = (fault = "assembly"),
                     !.threat = scored.result,
                     !.results = evaluated.results] ]

\* index.ts:39-52: from the return of threatDetector.analyze on
afterAnalyze(counted, scored, active, agentId, prompt, fault) ==
  afterPolicies(counted, scored,
                evaluatePolicies(active, policyContext(agentId, prompt, scored.result,
                                                       counted.count)),
                agentId, prompt, fault)

\* a request whose scorer failed gives its quota back
afterCount_refund(counted, st, active, t, agentId, prompt, upGet, upSet, fault) ==
  IF fault = "scorer"
  THEN [ resp |-> failClosed,
         counts |-> [counted.counts EXCEPT ![agentId].count = @ - 1], store |-> st,
         call |-> [trace(agentId, prompt) EXCEPT
                     !.requestCount = counted.count, !.scored = TRUE,
                     !.thrown = TRUE] ]
  ELSE afterAnalyze(counted, analyze(st, prompt, agentId, t, upGet, upSet),
                    active, agentId, prompt, fault)

\* index.ts:36-39: from the return of getRequestCount on
afterCount(counted, st, active, t, agentId, prompt, upGet, upSet, fault) ==
  IF fault = "scorer"
  THEN [ resp |-> failClosed, counts |-> counted.counts, store |-> st,
         call |-> [trace(agentId, prompt) EXCEPT
                     !.requestCount = counted.count, !.scored = TRUE,
                     !.thrown = TRUE] ]
  ELSE afterAnalyze(counted, analyze(st, prompt, agentId, t, upGet, upSet),
                    active, agentId, prompt, fault)

\* a request that is counted before its prompt is validated
analyzeRequest_countFirst(counts, st, active, t, agentId, prompt, upGet, upSet, fault) ==
  IF BlankOf[prompt]
  THEN [ resp |-> rejectEmpty, counts |-> getRequestCount(counts, agentId, t).counts,
         store |-> st, call |-> trace(agentId, prompt) ]
  ELSE afterCount(getRequestCount(counts, agentId, t), st, active, t,
                  agentId, prompt, upGet, upSet, fault)

\* the whole of analyzeRequest as one step, on the counter map, the store,
\* the active policy set and the time it runs at: the response, the state it
\* leaves and the trace of what it invoked
analyzeRequest(counts, st, active, t, agentId, prompt, upGet, upSet, fault) ==
  IF BlankOf[prompt]
  THEN [ resp |-> rejectEmpty, counts |-> counts, store |-> st,
         call |-> trace(agentId, prompt) ]
  ELSE afterCount(getRequestCount(counts, agentId, t), st, active, t,
                  agentId, prompt, upGet, upSet, fault)

\* ------------------------------------------------------------------------
\* Actions
\* ------------------------------------------------------------------------
\* the module is loaded: empty counter map, the engine constructed over the
\* policy source (PolicyEngine constructor calls loadPolicies), empty store
Init ==
  /\ now = 0
  /\ requestCounts = [a \in Agents |-> NoEntry]
  /\ store = [k \in Keys |-> Absent]
  /\ source \in PolicySources
  /\ policies = loadPolicies(source)
  /\ resp = NoResponse
  /\ call = NoCall
  /\ pending = NoPending
  /\ audit = NoAudit

\* analyzeRequest returns r
Returns(r) ==
  /\ resp' = r.resp
  /\ requestCounts' = r.counts
  /\ store' = r.store
  /\ call' = r.call
  /\ UNCHANGED <<now, source, policies, pending, audit>>

\* a caller runs analyzeRequest to completion
AnalyzeRequest(agentId, prompt, upGet, upSet, fault) ==
  Returns(analyzeRequest(requestCounts, store, policies, now, agentId, prompt,
                         upGet, upSet, fault))

\* time passes; Redis drops the keys whose time to live has run out
TickTo(points) ==
  /\ \E t \in points :
        /\ t > now
        /\ now' = t
        /\ store' = [k \in Keys |-> IF Live(store, k, t) THEN store[k] ELSE Absent]
  /\ UNCHANGED <<requestCounts, source, policies, resp, call, pending, audit>>

Tick == TickTo(TimePoints)

\* the requests counted in the map, over all agents
RECURSIVE totalCount(_, _)
totalCount(counts, agents) ==
  IF agents = {} THEN 0
  ELSE LET a == CHOOSE x \in agents : TRUE
       IN (IF counts[a] = NoEntry THEN 0 ELSE counts[a].count)
          + totalCount(counts, agents \ {a})

\* the prompts of the requests: rejected ones, and ones that score 0, 0.8
\* and 0.6
ServePrompts == {EmptyPrompt, BlankPrompt, SafePrompt, HeuristicHighPrompt, InjectionPrompt}

Serve ==
  \E a \in Agents, p \in ServePrompts, f \in Faults :
    /\ totalCount(requestCounts, Agents) < MaxCount
    /\ AnalyzeRequest(a, p, TRUE, TRUE, f)

Next == Serve \/ Tick

Spec == Init /\ [][Next]_vars

\* ------------------------------------------------------------------------
\* The rate limit: one agent sends request after request until it is past
\* the limit, under every policy set that recommends something else
\* ------------------------------------------------------------------------
RatePrompts == {BlankPrompt, SafePrompt, MarkerPrompt, HeuristicHighPrompt}
RateSources == {SrcFull, SrcInjection, SrcBroken, Unreadable}
RateFaults == {"none", "assembly"}

InitRate ==
  /\ now = 0
  /\ requestCounts = [a \in Agents |-> NoEntry]
  /\ store = [k \in Keys |-> Absent]
  /\ source \in RateSources
  /\ policies = loadPolicies(source)
  /\ resp = NoResponse
  /\ call = NoCall
  /\ pending = NoPending
  /\ audit = NoAudit

\* the count the agent's next request would get
nextCount(agentId) == getRequestCount(requestCounts, agentId, now).count

ServeRate ==
  \E a \in Agents, p \in RatePrompts, f \in RateFaults :
    /\ \A b \in Agents \ {a} : requestCounts[b] = NoEntry
    /\ nextCount(a) <= RateLimit + MaxOver
    /\ AnalyzeRequest(a, p, TRUE, TRUE, f)

NextRate == ServeRate

SpecRate == InitRate /\ [][NextRate]_vars

\* ------------------------------------------------------------------------
\* The cache and the scorer on their own: callers use SecurityCache and
\* ThreatDetector directly (as tests/cache.test.ts and the detector tests
\* do) while time passes and the store comes and goes
\* ------------------------------------------------------------------------
CacheValues == {[test |-> "data"], [test |-> "other"]}
CacheTTLs == {0, 1, AnalyzeTTL}
CachePrompts == {InjectionPrompt}
CacheKeys == {KeyOf[a, p] : a \in Agents, p \in CachePrompts} \cup TestKeys

\* the instants at which the cache is observed: the start and the expiry of
\* what was written at the start
CachePoints == {0} \cup {ttl * 1000 + j : ttl \in CacheTTLs \ {0}, j \in 0..(MaxJitter - 1)}

InitCache ==
  /\ now = 0
  /\ requestCounts = [a \in Agents |-> NoEntry]
  /\ store = [k \in Keys |-> Absent]
  /\ source = SrcInjection
  /\ policies = loadPolicies(source)
  /\ resp = NoResponse
  /\ call = NoCall
  /\ pending = NoPending
  /\ audit = NoAudit

CacheSet(key, value, ttl, up) ==
  /\ store' = cacheSet(store, key, value, ttl, now, up)
  /\ call' = [op |-> "set", key |-> key, value |-> value, ttl |-> ttl, up |-> up]
  /\ UNCHANGED <<now, requestCounts, source, policies, resp, pending, audit>>

CacheGet(key, up) ==
  /\ call' = [op |-> "get", key |-> key, up |-> up,
              result |-> cacheGet(store, key, now, up)]
  /\ UNCHANGED <<now, requestCounts, store, source, policies, resp, pending, audit>>

CacheExists(key, up) ==
  /\ call' = [op |-> "exists", key |-> key, up |-> up,
              result |-> cacheExists(store, key, now, up)]
  /\ UNCHANGED <<now, requestCounts, store, source, policies, resp, pending, audit>>

CacheDel(key, up) ==
  /\ store' = cacheDel(store, key, up)
  /\ call' = [op |-> "del", key |-> key, up |-> up]
  /\ UNCHANGED <<now, requestCounts, source, policies, resp, pending, audit>>

CacheFlush(up) ==
  /\ store' = cacheFlush(store, up)
  /\ call' = [op |-> "flush", up |-> up]
  /\ UNCHANGED <<now, requestCounts, source, policies, resp, pending, audit>>

\* a caller runs ThreatDetector.analyze to completion
Analyze(agentId, prompt, upGet, upSet) ==
  LET r == analyze(store, prompt, agentId, now, upGet, upSet)
  IN /\ store' = r.store
     /\ call' = [ op |-> "analyze", agentId |-> agentId, prompt |-> prompt,
                  upGet |-> upGet, upSet |-> upSet,
                  hadEntry |-> Live(store, KeyOf[agentId, prompt], now),
                  at |-> now,
                  \* how long ago the entry that is served was written
                  age |-> IF r.result.cached
                          THEN now - store[KeyOf[agentId, prompt]].setAt ELSE 0,
                  result |-> r.result, wrote |-> r.wrote ]
     /\ UNCHANGED <<now, requestCounts, source, policies, resp, pending, audit>>

\* time passes; an expired key stays in the store until it is written again
\* or deleted, and no read returns it
Pass ==
  /\ \E t \in CachePoints : t > now /\ now' = t
  /\ UNCHANGED <<requestCounts, store, source, policies, resp, call, pending, audit>>

UseCache ==
  \E k \in CacheKeys, up \in BOOLEAN :
    \/ \E v \in CacheValues, ttl \in CacheTTLs : k \in TestKeys /\ CacheSet(k, v, ttl, up)
    \/ CacheGet(k, up)
    \/ CacheExists(k, up)
    \/ CacheDel(k, up)
    \/ CacheFlush(up)

UseDetector ==
  \E a \in Agents, p \in CachePrompts, upGet \in BOOLEAN, upSet \in BOOLEAN :
    Analyze(a, p, upGet, upSet)

NextCache == UseCache \/ UseDetector \/ Pass

SpecCache == InitCache /\ [][NextCache]_vars

\* ------------------------------------------------------------------------
\* Outage: the cache, the scorer and the orchestrator while the store fails
\* under some of the calls; no time passes
\* ------------------------------------------------------------------------
OutagePrompts == {InjectionPrompt}
OutageSources == {SrcFull, SrcInjection}

InitOutage ==
  /\ now = 0
  /\ requestCounts = [a \in Agents |-> NoEntry]
  /\ store = [k \in Keys |-> Absent]
  /\ source \in OutageSources
  /\ policies = loadPolicies(source)
  /\ resp = NoResponse
  /\ call = NoCall
  /\ pending = NoPending
  /\ audit = NoAudit

ServeOutage ==
  \E a \in Agents, p \in OutagePrompts, upGet \in BOOLEAN, upSet \in BOOLEAN :
    /\ totalCount(requestCounts, Agents) < MaxCount
    /\ AnalyzeRequest(a, p, upGet, upSet, "none")

NextOutage == UseCache \/ UseDetector \/ ServeOutage

SpecOutage == InitOutage /\ [][NextOutage]_vars

\* ------------------------------------------------------------------------
\* The policy engine on its own: an engine constructed over any source of
\* at most MaxPolicies records is asked to evaluate contexts
\* ------------------------------------------------------------------------
RECURSIVE listsOver(_, _)
listsOver(pool, n) ==
  IF n = 0 THEN {<<>>}
  ELSE LET shorter == listsOver(pool, n - 1)
       IN shorter \cup {Append(l, x) : l \in {m \in shorter : Len(m) = n - 1},
                                        x \in pool}

SourcePool ==
  {Unreadable, NotAList, SrcGuarded}
  \cup {FromList(l) : l \in {m \in listsOver(PolicyPool, MaxPolicies) :
                              \A i, j \in 1..Len(m) : i # j => m[i] # m[j]}}

Contexts ==
  [ agentId : {"agent-1"},
    prompt : {SafePrompt, MarkerPrompt, InjectionPrompt},
    riskScore : {20, 60, 80},
    detectedPatterns : {<<"ignore previous instructions">>},
    requestCount : {1, 2, 150} ]

InitPolicy ==
  /\ now = 0
  /\ requestCounts = [a \in Agents |-> NoEntry]
  /\ store = [k \in Keys |-> Absent]
  /\ source \in SourcePool
  /\ policies = loadPolicies(source)
  /\ resp = NoResponse
  /\ call = NoCall
  /\ pending = NoPending
  /\ audit = NoAudit

\* a caller runs PolicyEngine.evaluatePolicies to completion
EvaluatePolicies(context) ==
  LET r == evaluatePolicies(policies, context)
  IN /\ call' = [ op |-> "evaluatePolicies", context |-> context,
                  thrown |-> r.thrown, results |-> r.results ]
     /\ UNCHANGED <<now, requestCounts, store, source, policies, resp, pending, audit>>

\* the first request the orchestrator serves over that engine
ServePolicy ==
  \E p \in {MarkerPrompt, InjectionPrompt} :
    /\ \A a \in Agents : requestCounts[a] = NoEntry
    /\ AnalyzeRequest("agent-1", p, TRUE, TRUE, "none")

NextPolicy == (\E context \in Contexts : EvaluatePolicies(context)) \/ ServePolicy

SpecPolicy == InitPolicy /\ [][NextPolicy]_vars

\* ------------------------------------------------------------------------
\* Loading: an engine is constructed over any source of at most MaxPolicies
\* records; the source is then replaced and reloadPolicies is called
\* ------------------------------------------------------------------------
LoadPool == PolicyPool \cup {polDisabledInvalid}

LoadSources ==
  {Unreadable, NotAList}
  \cup {FromList(l) : l \in {m \in listsOver(LoadPool, MaxPolicies) :
                              \A i, j \in 1..Len(m) : i # j => m[i] # m[j]}}

SrcDisabledInvalid == FromList(<<polLowRisk, polDisabledInvalid>>)

\* the sources the policy file is replaced with
ReloadSources ==
  {Unreadable, NotAList, SrcNone, SrcFull, SrcInjection, SrcInvalid, SrcDisabledInvalid}

InitLoad ==
  /\ now = 0
  /\ requestCounts = [a \in Agents |-> NoEntry]
  /\ store = [k \in Keys |-> Absent]
  /\ source \in LoadSources
  /\ policies = loadPolicies(source)
  /\ resp = NoResponse
  /\ call = NoCall
  /\ pending = NoPending
  /\ audit = NoAudit

\* the policy file is replaced; the engine keeps its active set
EditSource(s) ==
  /\ s # source
  /\ source' = s
  /\ call' = [op |-> "edit"]
  /\ UNCHANGED <<now, requestCounts, store, policies, resp, pending, audit>>

\* a reload that keeps an active set that was loaded from a source
ReloadPolicies_onlyFromFallback ==
  /\ policies' = IF policies = loadDefaultPolicies THEN loadPolicies(source) ELSE policies
  /\ call' = [op |-> "reloadPolicies", before |-> policies]
  /\ UNCHANGED <<now, requestCounts, store, source, resp, pending, audit>>

\* PolicyEngine.reloadPolicies (PolicyEngine.ts:187-189); the trace keeps
\* the active set the engine had before
ReloadPolicies ==
  /\ policies' = loadPolicies(source)
  /\ call' = [op |-> "reloadPolicies", before |-> policies]
  /\ UNCHANGED <<now, requestCounts, store, source, resp, pending, audit>>

NextLoad ==
  \/ \E s \in ReloadSources : EditSource(s)
  \/ ReloadPolicies
  \/ \E context \in Contexts : EvaluatePolicies(context)

SpecLoad == InitLoad /\ [][NextLoad]_vars

\* ------------------------------------------------------------------------
\* Properties of the orchestrator  (checked under Spec)
\* ------------------------------------------------------------------------
\* the string is empty or holds nothing but white space
OnlyWhiteSpace(s) == \A i \in 1..Len(s) : SubSeq(s, i, i) = " "

C4_VerdictPrecedence ==
  ( /\ call.op = "analyzeRequest"
    /\ ~OnlyWhiteSpace(call.prompt)
    /\ call.requestCount <= 100
    /\ ~call.thrown ) =>
    LET tp == call.threat.threatProbability
    IN IF Len(call.results) > 0
       THEN LET first == call.results[1]
            IN /\ resp.action = first.recommendedAction.type
               /\ resp.reason = IF first.recommendedAction.message # ""
                                THEN first.recommendedAction.message
                                ELSE "Policy " \o first.policy.name \o " triggered"
       ELSE /\ (resp.action = "block") = (tp > 70)
            /\ (resp.action = "warn") = (tp > 30 /\ tp <= 70)
            /\ (resp.action = "allow") = (tp <= 30)
            /\ resp.action \in {"block", "warn", "allow"}

\* a matched policy overrode the thresholds: the threat probability is
\* above 0.7 and the request is answered with the policy's modify
C4_Witness ==
  /\ call.op = "analyzeRequest"
  /\ ~call.thrown
  /\ Len(call.results) > 0
  /\ call.threat.threatProbability > 70
  /\ resp.action = "modify"
  /\ resp.reason = "Prompt sanitized"

\* C5: an exception raised anywhere after the validation is caught: the
\* caller gets block, risk score 1.0 and "Security analysis failed", and
\* every call returns a response.
C5_FailClosed ==
  (call.op = "analyzeRequest") =>
    /\ resp # NoResponse
    /\ resp.action \in ActionTypes
    /\ call.thrown =>
         /\ resp.action = "block"
         /\ resp.riskScore = 100
         /\ resp.reason = "Security analysis failed"

\* the policy evaluation threw on a prompt the thresholds would have allowed
C5_Witness ==
  /\ call.op = "analyzeRequest"
  /\ call.thrown
  /\ call.evaluated
  /\ call.threat # Null
  /\ call.threat.threatProbability <= 30
  /\ resp.action = "block"

\* C12: in every response of analyzeRequest, evidence.promptLength is the
\* number of characters of the submitted prompt, also when the prompt is
\* rejected by the validation and when the call ends in the catch block.
C12_PromptLengthExact ==
  (call.op = "analyzeRequest") =>
    /\ "promptLength" \in DOMAIN resp.evidence
    /\ resp.evidence.promptLength = Len(call.prompt)

\* C16: analyzeRequest on a request with an empty prompt returns the action
\* allow and the risk score 0.
C16_EmptyPromptAllowed ==
  (call.op = "analyzeRequest" /\ call.prompt = EmptyPrompt) =>
    /\ resp.action = "allow"
    /\ resp.riskScore = 0

EmptyStore == [k \in Keys |-> Absent]

\* C6: when the store fails, get returns absent, exists returns false, and
\* set, del and flush complete without effect; ThreatDetector.analyze then
\* returns the freshly computed result with cached=false, and
\* analyzeRequest answers with the action, reason and risk score it gives
\* over a healthy, empty cache.
C6_CacheFailuresDegrade ==
  [][ /\ (call'.op = "get" /\ ~call'.up) => call'.result = Null
      /\ (call'.op = "exists" /\ ~call'.up) => call'.result = FALSE
      /\ (call'.op \in {"set", "del", "flush"} /\ ~call'.up) => store' = store
      /\ (call'.op = "analyze" /\ ~call'.upGet) =>
            /\ call'.result.cached = FALSE
            /\ call'.result.threatProbability = ScoreOf[call'.prompt].threatProbability
            /\ call'.result.confidence = ScoreOf[call'.prompt].confidence
            /\ call'.result.detectedPatterns = ScoreOf[call'.prompt].detectedPatterns
            /\ (~call'.upSet => store' = store)
      /\ (call'.op = "analyzeRequest") =>
            \A upSet \in BOOLEAN :
              AnalyzeRequest(call'.agentId, call'.prompt, FALSE, upSet, "none") =>
                LET healthy == analyzeRequest(requestCounts, EmptyStore, policies, now,
                                              call'.agentId, call'.prompt,
                                              TRUE, TRUE, "none").resp
                IN /\ resp'.action = healthy.action
                   /\ resp'.reason = healthy.reason
                   /\ resp'.riskScore = healthy.riskScore
                   /\ resp'.evidence.cached = FALSE
                   /\ (~upSet => store' = store)
    ]_vars

\* a request was served while the store failed: the scorer computed the
\* result, its write left nothing in the store, and the policy verdict came
C6_Witness ==
  /\ call.op = "analyzeRequest"
  /\ call.cacheWrite
  /\ store[KeyOf[call.agentId, call.prompt]] = Absent
  /\ resp.evidence.cached = FALSE
  /\ resp.action = "block"
  /\ resp.reason = "Potential prompt injection detected"

\* ------------------------------------------------------------------------
\* Properties of the cache over time  (checked under SpecCache)
\* ------------------------------------------------------------------------
\* C7: two successive calls of ThreatDetector.analyze with the same prompt
\* and agent, the first finding no entry, the second within the time to
\* live, the store answering both: they return the same threatProbability,
\* confidence and detectedPatterns, the first with cached=false and the
\* second with cached=true; the entry in the store carries cached=false.
C7_AnalyzeIdempotent ==
  [][ /\ \A k \in ScorerKeys :
           store'[k] # Absent => parse(store'[k].val).cached = FALSE
      /\ \A a \in Agents, p \in CachePrompts :
           ( /\ call.op = "analyze"
             /\ call.agentId = a /\ call.prompt = p
             /\ call.upGet /\ call.upSet
             /\ ~call.hadEntry
             /\ now - call.at < 3600 * 1000
             /\ Analyze(a, p, TRUE, TRUE) ) =>
             /\ call.result.cached = FALSE
             /\ call'.result.cached = TRUE
             /\ call'.result.threatProbability = call.result.threatProbability
             /\ call'.result.confidence = call.result.confidence
             /\ call'.result.detectedPatterns = call.result.detectedPatterns
    ]_vars

\* the second call came a second after the first and was served from the
\* cache
C7_Witness ==
  /\ call.op = "analyze"
  /\ call.hadEntry
  /\ call.result.cached
  /\ call.age = 1000
  /\ call.result.threatProbability = 60

\* C8: while the store answers, a value written with set(key, v, ttl) is
\* present (exists is true, get returns v) until ttl seconds have passed
\* since the write and absent (exists is false, get returns absent) from
\* then on, unless it is written again; ThreatDetector.analyze writes with
\* a time to live of 3600 seconds, and a result it serves from the cache
\* was computed less than one hour before.
C8_CacheExpiry ==
  /\ \A k \in Keys :
       store[k] # Absent =>
         LET e == store[k]
         IN IF now - e.setAt < e.ttl * 1000
            THEN /\ cacheExists(store, k, now, TRUE)
                 /\ cacheGet(store, k, now, TRUE) = parse(e.val)
            ELSE /\ ~cacheExists(store, k, now, TRUE)
                 /\ cacheGet(store, k, now, TRUE) = Null
  /\ \A k \in ScorerKeys : store[k] # Absent => store[k].ttl = 3600
  /\ (call.op = "analyze" /\ call.result.cached) => call.age < 3600 * 1000
  /\ (call.op = "set" /\ call.up /\ call.ttl >= 1 /\ store[call.key] # Absent
      /\ store[call.key].setAt = now) =>
        /\ cacheGet(store, call.key, now, TRUE) = call.value
        /\ store[call.key].ttl = call.ttl

\* a value written with a time to live of one second is asked for after
\* that second and is gone
C8_Witness ==
  /\ call.op = "exists"
  /\ call.up
  /\ call.result = FALSE
  /\ store[call.key] # Absent
  /\ store[call.key].ttl = 1
  /\ now - store[call.key].setAt >= 1000


\* ------------------------------------------------------------------------
\* Properties of the policy engine  (checked under SpecPolicy)
\* ------------------------------------------------------------------------
\* every condition of the policy holds in the context
fullyMatches(policy, context) ==
  \A i \in 1..Len(policy.conditions) :
    evaluateCondition(policy.conditions[i], context) = "true"

C10_UrgentFirst ==
  (call.op = "evaluatePolicies" /\ ~call.thrown /\ Len(call.results) >= 2) =>
    call.results[1].policy.priority <= call.results[2].policy.priority

\* ------------------------------------------------------------------------
\* Properties of policy loading  (checked under SpecLoad)
\* ------------------------------------------------------------------------
\* the source cannot be read, is not a list, or holds a record that the
\* validator rejects
Unusable(src) ==
  \/ src = Unreadable
  \/ src = NotAList
  \/ \E i \in 1..Len(src.policies) : ~validatePolicy(src.policies[i])

\* the engine has just been constructed or reloaded
JustLoaded == call.op \in {"none", "reloadPolicies"}

\* C11: after construction or reloadPolicies over a source that cannot be
\* read, is not a list of policies, or holds a record (enabled or not) that
\* fails validation, the active set is exactly the built-in policy:
\* risk_score greater_than 0.7, block, "High risk content detected".  No
\* policy of a partly invalid source is active.
C11_LoadFallsBack ==
  (JustLoaded /\ Unusable(source)) =>
    /\ Len(policies) = 1
    /\ policies[1].enabled
    /\ policies[1].conditions = <<Cond("risk_score", "greater_than", Num(70))>>
    /\ policies[1].actions = <<Act("block", "High risk content detected")>>
    /\ source \notin {Unreadable, NotAList} =>
         \A i \in 1..Len(source.policies) : policies[1] # source.policies[i]

\* a reload over a list whose only invalid record is disabled fell back
C11_Witness ==
  /\ call.op = "reloadPolicies"
  /\ source = SrcDisabledInvalid
  /\ Len(policies) = 1
  /\ policies[1].name = "basic_security"

\* ------------------------------------------------------------------------
\* Concurrent calls of analyzeRequest (SpecConc).  The calls of one agent
\* run on one thread: a call runs until it awaits, and the awaits of
\* analyzeRequest are the read and the write of the cache inside
\* threatDetector.analyze (detector.ts:26, 44) and the return of analyze
\* itself (index.ts:39).  Calls are numbered in the order they are made.
\* ------------------------------------------------------------------------
Calls == 1..MaxCalls
ConcAgent == "agent-1"
ConcPrompts == {SafePrompt, InjectionPrompt}

\* a call that has not been made yet
Idle == [pc |-> "idle"]

InitConc ==
  /\ now = 0
  /\ requestCounts = [a \in Agents |-> NoEntry]
  /\ store = [k \in Keys |-> Absent]
  /\ source = SrcFull
  /\ policies = loadPolicies(source)
  /\ resp = NoResponse
  /\ call = NoCall
  /\ pending = [i \in Calls |-> Idle]
  /\ audit = NoAudit

\* index.ts:18-39 and detector.ts:19-26: call i is made with a prompt that
\* passes validation; it counts the request and runs up to the read of the
\* cache, where it is suspended
Enter(i, prompt, counted) ==
  /\ pending[i].pc = "idle"
  /\ \A j \in 1..(i - 1) : pending[j].pc # "idle"
  /\ ~BlankOf[prompt]
  /\ requestCounts' = counted.counts
  /\ pending' = [pending EXCEPT ![i] =
                   [pc |-> "get", prompt |-> prompt, count |-> counted.count]]
  /\ UNCHANGED <<now, store, source, policies, resp, call, audit>>

\* detector.ts:26-44: the read of the cache answers call i; on a hit analyze
\* returns the entry, on a miss it scores the prompt and is suspended at
\* the write
GetAnswered(i, cached) ==
  /\ pending[i].pc = "get"
  /\ pending' = [pending EXCEPT ![i] =
       IF cached # Null
       THEN [pc |-> "scored", prompt |-> pending[i].prompt,
             count |-> pending[i].count,
             threat |-> [cached EXCEPT !.cached = TRUE, !.processingTime = 0]]
       ELSE [pc |-> "set", prompt |-> pending[i].prompt,
             count |-> pending[i].count,
             threat |-> finalResult(ScoreOf[pending[i].prompt])]]
  /\ UNCHANGED <<now, requestCounts, store, source, policies, resp, call, audit>>

\* detector.ts:44-47: the write of the cache answers call i and analyze
\* returns the result it computed
SetAnswered(i) ==
  /\ pending[i].pc = "set"
  /\ store' = cacheSet(store, KeyOf[ConcAgent, pending[i].prompt],
                       pending[i].threat, AnalyzeTTL, now, TRUE)
  /\ pending' = [pending EXCEPT ![i].pc = "scored"]
  /\ UNCHANGED <<now, requestCounts, source, policies, resp, call, audit>>

\* index.ts:39-97: call i resumes with the result of analyze, evaluates the
\* policies and returns
Resume(i, evaluated) ==
  /\ pending[i].pc = "scored"
  /\ resp' = IF evaluated.thrown THEN failClosed
             ELSE response(resolveVerdict(evaluated.results,
                                          pending[i].threat.threatProbability,
                                          pending[i].count),
                           pending[i].threat, pending[i].prompt,
                           evaluated.results)
  /\ pending' = [pending EXCEPT ![i] =
                   [pc |-> "done", prompt |-> pending[i].prompt,
                    count |-> pending[i].count]]
  /\ UNCHANGED <<now, requestCounts, store, source, policies, call, audit>>

NextConc ==
  \/ \E i \in Calls, p \in ConcPrompts :
       Enter(i, p, getRequestCount(requestCounts, ConcAgent, now))
  \/ \E i \in Calls :
       /\ pending[i].pc = "get"
       /\ GetAnswered(i, cacheGet(store, KeyOf[ConcAgent, pending[i].prompt],
                                  now, TRUE))
  \/ \E i \in Calls : SetAnswered(i)
  \/ \E i \in Calls :
       /\ pending[i].pc = "scored"
       /\ Resume(i, evaluatePolicies(policies,
                      policyContext(ConcAgent, pending[i].prompt,
                                    pending[i].threat, pending[i].count)))

SpecConc == InitConc /\ [][NextConc]_vars

\* the calls that have been made
Entered == {i \in Calls : pending[i].pc # "idle"}

\* C13: whatever the interleaving of the concurrent calls of one agent with
\* non-empty prompts inside one window, the counts they obtained from
\* getRequestCount are exactly 1..N for the N calls made so far, no two
\* the same, and the stored count is N, although calls are suspended at
\* the cache while others are counted.
C13_CounterAtomic ==
  /\ {pending[i].count : i \in Entered} = 1..Cardinality(Entered)
  /\ \A i, j \in Entered : pending[i].count = pending[j].count => i = j
  /\ Entered # {} => requestCounts[ConcAgent].count = Cardinality(Entered)

\* every call was made, the first is still suspended at its read of the
\* cache and the last has returned
C13_Witness ==
  /\ Entered = Calls
  /\ pending[1].pc = "get"
  /\ pending[MaxCalls].pc = "done"
  /\ requestCounts[ConcAgent].count = MaxCalls

\* ------------------------------------------------------------------------
\* The scorer over many prompts (SpecScore).  A prompt is put together from
\* at most MaxParts fragments: the first listed phrase in lower and in
\* mixed case, the phrase without its last letter and with a doubled
\* space, that last letter, two other listed phrases and a filler.
\* ------------------------------------------------------------------------
Fragments ==
  << "ignore previous instructions",
     "IGNORE Previous InStRuCtIoNs",
     "Ignore previous instruction",
     "ignore previous  instructions",
     "s",
     "You Are Now",
     "system prompt override",
     " please " >>

RECURSIVE joinParts(_)
joinParts(parts) ==
  IF Len(parts) = 0 THEN "" ELSE Fragments[Head(parts)] \o joinParts(Tail(parts))

\* prompts for the heuristics: role markers alone and together, roleplay,
\* a prompt of 1001 characters, and one word said 21 times
LongPrompt == Repeat("a", 1001)
RepetitivePrompt == Repeat("go ", 21)
HeuristicPrompts ==
  { MarkerPrompt, HeuristicHighPrompt, MildPrompt, DoubleInjectionPrompt,
    "[System] check", "[ADMIN] check", "Let us roleplay", LongPrompt, RepetitivePrompt }

ScorePrompts ==
  {joinParts(parts) : parts \in UNION {[1..n -> 1..Len(Fragments)] : n \in 0..MaxParts}}
  \cup HeuristicPrompts

InitScore ==
  /\ now = 0
  /\ requestCounts = [a \in Agents |-> NoEntry]
  /\ store = [k \in Keys |-> Absent]
  /\ source = SrcNone
  /\ policies = loadPolicies(source)
  /\ resp = NoResponse
  /\ call \in {[op |-> "prompt", prompt |-> p] : p \in ScorePrompts}
  /\ pending = NoPending
  /\ audit = NoAudit

\* detector.ts:36-42: analyze finds no entry for the prompt and computes
\* the result
AnalyzeFresh ==
  /\ call.op = "prompt"
  /\ resp' = finalResult(detectThreats(call.prompt))
  /\ call' = [op |-> "analyze", prompt |-> call.prompt]
  /\ UNCHANGED <<now, requestCounts, store, source, policies, pending, audit>>

NextScore == AnalyzeFresh

SpecScore == InitScore /\ [][NextScore]_vars

\* two characters that are the same letter in either case, or the same
\* character
sameLetter(c, d) ==
  \/ c = d
  \/ \E i \in 1..26 : {c, d} = {UpperChars[i], LowerChars[i]}

\* the phrase occurs in s, in any letter case
occursInAnyCase(s, phrase) ==
  \E i \in 1..(Len(s) - Len(phrase) + 1) :
    \A k \in 1..Len(phrase) :
      sameLetter(SubSeq(s, i + k - 1, i + k - 1), SubSeq(phrase, k, k))

\* a listed phrase occurs in the lower-cased prompt of the last call
occursLowered(phrase) == includes(toLowerCase(call.prompt), phrase)

\* C14: for every prompt that contains "ignore previous instructions" in
\* any letter case the freshly computed result has threatProbability >= 0.4
\* and lists the phrase; and the detectedPatterns of every freshly computed
\* result is exactly the sub-list of the ten phrases that occur in the
\* lower-cased prompt, in the order of the list.
C14_PhraseDetected ==
  (call.op = "analyze") =>
    /\ occursInAnyCase(call.prompt, maliciousPatterns[1]) =>
         /\ resp.threatProbability >= 40
         /\ \E i \in 1..Len(resp.detectedPatterns) :
              resp.detectedPatterns[i] = maliciousPatterns[1]
    /\ resp.detectedPatterns = SelectSeq(maliciousPatterns, occursLowered)
    /\ ~resp.cached

\* a prompt that holds the phrase only in mixed case, and a second listed
\* phrase after it, was scored
C14_Witness ==
  /\ call.op = "analyze"
  /\ ~includes(call.prompt, maliciousPatterns[1])
  /\ occursInAnyCase(call.prompt, maliciousPatterns[1])
  /\ resp.detectedPatterns = <<"ignore previous instructions", "you are now">>

\* ------------------------------------------------------------------------
\* Isolation of the cache entries  (checked under SpecCache)
\* ------------------------------------------------------------------------
\* agent ids that try to run into each other's keys, and the fingerprints
\* of the model
KeyAgents ==
  Agents \cup {"", "agent", "agent-1:", "agent-1:087b391ca4342386", "security"}
Fingerprints ==
  {hashPrompt(p) : p \in SolidPrompts \cup {MildPrompt, DoubleInjectionPrompt}}

\* the key the entry of an agent and a fingerprint is documented to have
documentedKey(agentId, fingerprint) == "security:" \o agentId \o ":" \o fingerprint

\* the key is injective on pairs of an agent id and a fingerprint, and
\* every fingerprint has 16 characters
keyInjective ==
  /\ \A f \in Fingerprints : Len(f) = 16
  /\ \A a, b \in KeyAgents, f, g \in Fingerprints :
       generateKey(a, f) = generateKey(b, g) => (a = b /\ f = g)

\* what C15 says of an analyze call of agent a with prompt p under key
isolatedAnalyze(a, p, upGet, key) ==
  /\ \A k \in DOMAIN store : k # key => store'[k] = store[k]
  /\ call'.result.cached =>
       /\ key \in DOMAIN store
       /\ Live(store, key, now)
       /\ call'.result = [parse(store[key].val) EXCEPT !.cached = TRUE]
  /\ \A b \in Agents \ {a} :
       ( /\ upGet
         /\ Live(store, KeyOf[b, p], now)
         /\ ~Live(store, KeyOf[a, p], now) ) => ~call'.result.cached

\* C15: cache entries are isolated per agent and fingerprint.  An analyze
\* call of agent a with prompt p touches the store at most under the key
\* security:{a}:{fingerprint of p}; it returns cached=true only if a live
\* entry stood under that key, so only what an earlier analyze of the same
\* agent and fingerprint wrote; the entry of another agent for the same
\* prompt is neither read nor written; and the key is injective on pairs of
\* an agent id and a 16-character fingerprint.
C15_CacheIsolation ==
  [][ /\ keyInjective
      /\ ( /\ call'.op = "analyze"
           /\ call' # call
           /\ Analyze(call'.agentId, call'.prompt, call'.upGet, call'.upSet) ) =>
           isolatedAnalyze(call'.agentId, call'.prompt, call'.upGet,
                           documentedKey(call'.agentId, hashPrompt(call'.prompt)))
    ]_vars

\* the second agent sent the prompt whose result is cached for the first
\* agent, the store answered, and the result was computed afresh
C15_Witness ==
  /\ call.op = "analyze"
  /\ call.agentId = "agent-2"
  /\ call.upGet
  /\ ~call.hadEntry
  /\ ~call.result.cached
  /\ store[KeyOf["agent-1", call.prompt]] # Absent
  /\ store[KeyOf["agent-1", call.prompt]].setAt < now
  /\ Live(store, KeyOf["agent-1", call.prompt], now)
  /\ store[KeyOf["agent-2", call.prompt]] # Absent
  /\ store[KeyOf["agent-2", call.prompt]].setAt = now

\* the records of the source that are enabled
enabledOf(src) == {src.policies[i] : i \in {j \in 1..Len(src.policies) : src.policies[j].enabled}}

\* C17: after every load or reload that accepts the source, the active set
\* is exactly the enabled policies of the source, in non-decreasing order
\* of priority; whatever is evaluated afterwards, no disabled policy
\* appears in a result of evaluatePolicies, and every result belongs to a
\* policy of the active set.
C17_EnabledAscending ==
  /\ (JustLoaded /\ ~Unusable(source)) =>
       /\ Range(policies) = enabledOf(source)
       /\ Len(policies) = Cardinality(enabledOf(source))
       /\ \A i, j \in 1..Len(policies) :
            i < j => policies[i].priority <= policies[j].priority
  /\ \A i \in 1..Len(policies) : policies[i].enabled
  /\ (call.op = "evaluatePolicies" /\ ~call.thrown) =>
       \A i \in 1..Len(call.results) :
         /\ call.results[i].policy.enabled
         /\ call.results[i].policy \in Range(policies)

\* the engine holds the two enabled policies of a source whose first record
\* is a disabled policy that would match every context, and an evaluation
\* over them returned one result
C17_Witness ==
  /\ source = SrcInjection
  /\ Len(policies) = 2
  /\ policies[1] = polInjection
  /\ policies[2] = polHistory
  /\ call.op = "evaluatePolicies"
  /\ Len(call.results) = 1

\* evaluating the conditions of the policy in order comes to one that
\* throws before it comes to one that does not hold
reachesThrow(policy, context) ==
  \E j \in 1..Len(policy.conditions) :
    /\ evaluateCondition(policy.conditions[j], context) = "throw"
    /\ \A k \in 1..(j - 1) : evaluateCondition(policy.conditions[k], context) = "true"

\* the indices of the active policies all of whose conditions hold
matching(context) == {i \in 1..Len(policies) : fullyMatches(policies[i], context)}

CondValues == {Num(50), List(<<Str("hello")>>), List(<<NotStr>>)}
CondPool == {Cond(t, o, v) : t \in ConditionTypes, o \in Operators, v \in CondValues}

alwaysHolds == Cond("risk_score", "greater_than", Num(-1))

polProbe(c) ==
  Policy("probe", TRUE, "low", 1, <<alwaysHolds, c>>, <<Act("block", "Probe matched")>>)

ProbeSources == {FromList(<<polProbe(c), polLowRisk>>) : c \in CondPool}

InitCondition ==
  /\ now = 0
  /\ requestCounts = [a \in Agents |-> NoEntry]
  /\ store = [k \in Keys |-> Absent]
  /\ source \in ProbeSources
  /\ policies = loadPolicies(source)
  /\ resp = NoResponse
  /\ call = NoCall
  /\ pending = NoPending
  /\ audit = NoAudit

\* the policy of the active set that carries the probed condition, if the
\* source was accepted
probes == {i \in 1..Len(policies) : policies[i].name = "probe"}

\* PolicyEngine.evaluateCondition (PolicyEngine.ts:123-134) on the probed
\* condition of the active set
EvaluateCondition(context) ==
  /\ probes # {}
  /\ LET c == policies[CHOOSE i \in probes : TRUE].conditions[2]
     IN call' = [ op |-> "evaluateCondition", condition |-> c, context |-> context,
                  result |-> evaluateCondition(c, context) ]
  /\ UNCHANGED <<now, requestCounts, store, source, policies, resp, pending, audit>>

NextCondition ==
  \/ \E context \in Contexts : EvaluateCondition(context)
  \/ \E context \in Contexts : EvaluatePolicies(context)

SpecCondition == InitCondition /\ [][NextCondition]_vars

\* the condition has the type agent_history, or an operator that its type
\* does not implement
unimplemented(c) ==
  \/ c.type = "agent_history"
  \/ c.type = "pattern_match" /\ c.operator # "contains"
  \/ c.type = "risk_score" /\ c.operator \notin {"greater_than", "less_than", "equals"}
  \/ c.type = "request_frequency" /\ c.operator \notin {"greater_than", "less_than"}

\* C19: a condition of type agent_history is false in every context with
\* every operator and value and does not throw, and so is a condition
\* whose operator its type does not implement (in_range, equals on
\* request_frequency, ...); a policy that contains such a condition never
\* appears in a result of evaluatePolicies, and evaluating it does not throw.
C19_UnimplementedIsFalse ==
  /\ (call.op = "evaluateCondition" /\ unimplemented(call.condition)) =>
       call.result = "false"
  /\ (call.op = "evaluatePolicies") =>
       \A i \in probes :
         unimplemented(policies[i].conditions[2]) =>
           /\ ~call.thrown
           /\ \A k \in 1..Len(call.results) : call.results[k].policy # policies[i]

\* a policy with an agent_history condition over a list that holds no
\* string is active beside a policy that matched, and only the latter was
\* returned
C19_Witness ==
  /\ call.op = "evaluatePolicies"
  /\ probes # {}
  /\ \E i \in probes :
       policies[i].conditions[2] = Cond("agent_history", "contains", List(<<NotStr>>))
  /\ ~call.thrown
  /\ Len(call.results) = 1
  /\ call.results[1].policy = polLowRisk

\* the policies with every action behind the first taken away
firstActionsOnly(list) ==
  [i \in 1..Len(list) |-> [list[i] EXCEPT !.actions = <<list[i].actions[1]>>]]

\* what a result says apart from the policy record it points to
outcome(r) ==
  [ name |-> r.policy.name, matched |-> r.matched, confidence |-> r.confidence,
    recommendedAction |-> r.recommendedAction,
    matchedConditions |-> r.matchedConditions ]

\* two evaluations threw both, or returned results that say the same
sameOutcomes(a, b) ==
  /\ a.thrown = b.thrown
  /\ ~a.thrown =>
       /\ Len(a.results) = Len(b.results)
       /\ \A k \in 1..Len(a.results) : outcome(a.results[k]) = outcome(b.results[k])

\* some policy of the list has more than one action
hasLaterActions(list) == \E i \in 1..Len(list) : Len(list[i].actions) > 1

\* C20: the recommendedAction of every result is the first listed action
\* of its policy; and the results of evaluatePolicies and the response of
\* analyzeRequest are what they would be if every active policy had its
\* first action only.
C20_FirstActionOnly ==
  [][ /\ (call'.op \in {"evaluatePolicies", "analyzeRequest"} /\ ~call'.thrown) =>
           \A k \in 1..Len(call'.results) :
             call'.results[k].recommendedAction = call'.results[k].policy.actions[1]
      /\ (call'.op = "evaluatePolicies" /\ call' # call /\ hasLaterActions(policies)) =>
           sameOutcomes([thrown |-> call'.thrown, results |-> call'.results],
                        evaluatePolicies(firstActionsOnly(policies), call'.context))
      /\ (call'.op = "analyzeRequest" /\ call' # call /\ hasLaterActions(policies)) =>
           resp' = analyzeRequest(requestCounts, store, firstActionsOnly(policies), now,
                                  call'.agentId, call'.prompt, TRUE, TRUE, "none").resp
    ]_vars

\* a policy whose first action blocks and whose second action warns
\* matched, and the request was blocked with the message of the first
C20_Witness ==
  /\ call.op = "analyzeRequest"
  /\ ~call.thrown
  /\ Len(call.results) > 0
  /\ call.results[1].policy = polInjection
  /\ Len(polInjection.actions) = 2
  /\ polInjection.actions[2].type = "warn"
  /\ resp.action = "block"
  /\ resp.reason = "Potential prompt injection detected"

\* ------------------------------------------------------------------------
\* The window of the rate limit (SpecWindow): one agent sends harmless
\* requests until it is past the limit while the other sends a few, with
\* no policy active, and time passes to the end of the window and beyond
\* ------------------------------------------------------------------------
WindowAgent == "agent-1"
WindowPrompts == {BlankPrompt, SafePrompt}

InitWindow ==
  /\ now = 0
  /\ requestCounts = [a \in Agents |-> NoEntry]
  /\ store = [k \in Keys |-> Absent]
  /\ source = SrcNone
  /\ policies = loadPolicies(source)
  /\ resp = NoResponse
  /\ call = NoCall
  /\ pending = NoPending
  /\ audit = NoAudit

\* a caller runs analyzeRequest to completion; the trace also keeps the
\* entry the agent had when the call was made
WindowRequest(a, p) ==
  LET r == analyzeRequest(requestCounts, store, policies, now, a, p, TRUE, TRUE, "none")
  IN /\ resp' = r.resp
     /\ requestCounts' = r.counts
     /\ store' = r.store
     /\ call' = [before |-> requestCounts[a]] @@ r.call
     /\ UNCHANGED <<now, source, policies, pending, audit>>

ServeWindow ==
  \E a \in Agents, p \in WindowPrompts :
    /\ nextCount(a) <= (IF a = WindowAgent THEN RateLimit + MaxOver ELSE 1)
    /\ (a # WindowAgent => now = 0)
    /\ WindowRequest(a, p)

NextWindow == ServeWindow \/ Tick

SpecWindow == InitWindow /\ [][NextWindow]_vars

\* the step is a call of analyzeRequest for agent a with a prompt that
\* passes the validation
counted(a) ==
  /\ call'.op = "analyzeRequest"
  /\ call'.agentId = a
  /\ ~BlankOf[call'.prompt]
  /\ WindowRequest(a, call'.prompt)

\* C21: a counted request of an agent that has no entry, or whose stored
\* resetTime lies strictly before now, sets the entry to count 1 and
\* resetTime now + 3600000 and gets the count 1; any other counted request
\* adds exactly 1 to the count and leaves resetTime as it was.  Nothing but
\* a counted request of the agent changes its entry (the window is fixed
\* from its first request), and the first request after the window of an
\* agent that was past the limit is not answered with the rate limit.
C21_WindowReset ==
  [][ \A a \in Agents :
        /\ counted(a) =>
             IF requestCounts[a] = NoEntry \/ now > requestCounts[a].resetTime
             THEN /\ requestCounts'[a] = [count |-> 1, resetTime |-> now + 3600000]
                  /\ call'.requestCount = 1
                  /\ resp'.reason # "Rate limit exceeded"
             ELSE /\ requestCounts'[a].count = requestCounts[a].count + 1
                  /\ requestCounts'[a].resetTime = requestCounts[a].resetTime
                  /\ call'.requestCount = requestCounts[a].count + 1
        /\ ~counted(a) => requestCounts'[a] = requestCounts[a]
    ]_vars

\* the agent was past the limit, the window ran out, and its next request
\* opened a new window and was allowed
C21_Witness ==
  /\ call.op = "analyzeRequest"
  /\ call.agentId = WindowAgent
  /\ call.requestCount = 1
  /\ call.before # NoEntry
  /\ call.before.count > RateLimit
  /\ now > call.before.resetTime
  /\ requestCounts[WindowAgent] = [count |-> 1, resetTime |-> now + RateWindowMs]
  /\ resp.action = "allow"

\* the lower-cased prompt of the last call holds the text
holds(text) == includes(toLowerCase(call.prompt), text)

\* the pieces the lower-cased prompt of the last call splits into
wordsOf == split(toLowerCase(call.prompt))

\* C22: the threatProbability of a freshly computed result is the smaller
\* of 1 and the sum of 0.4 for each listed phrase matched, 0.2 for
\* "ignore", 0.2 for "override", 0.3 for a role marker "[system]" or
\* "[admin]" (once, also when both occur), 0.1 for "roleplay", 0.1 for a
\* length above 1000, and 0.2 for more than 20 words of which fewer than
\* three in ten are distinct.
C22_ScoreFormula ==
  (call.op = "analyze") =>
    resp.threatProbability =
      Min(100,
            40 * Len(SelectSeq(maliciousPatterns, occursLowered))
          + (IF holds("ignore") THEN 20 ELSE 0)
          + (IF holds("override") THEN 20 ELSE 0)
          + (IF holds("[system]") \/ holds("[admin]") THEN 30 ELSE 0)
          + (IF holds("roleplay") THEN 10 ELSE 0)
          + (IF Len(call.prompt) > 1000 THEN 10 ELSE 0)
          + (IF Len(wordsOf) > 20 /\ 10 * Cardinality(Range(wordsOf)) < 3 * Len(wordsOf)
             THEN 20 ELSE 0))

\* C23: every condition of every active policy satisfies the invariant of
\* conditions: a pattern_match condition has the operator contains and a
\* list value, and a risk_score or request_frequency condition has a
\* numeric value; a source with any other pattern_match condition is
\* rejected at load.
C23_ConditionInvariant ==
  \A i \in 1..Len(policies) :
    \A j \in 1..Len(policies[i].conditions) :
      LET c == policies[i].conditions[j]
      IN /\ c.type = "pattern_match" =>
              (c.operator = "contains" /\ c.value.kind = "list")
         /\ c.type \in {"risk_score", "request_frequency"} => c.value.kind = "number"

\* ------------------------------------------------------------------------
\* The race of the cache check and the cache write  (checked under SpecConc)
\* ------------------------------------------------------------------------
\* the calls whose analyze has its result, from the cache or computed
Scored == {i \in Calls : pending[i].pc \in {"set", "scored"}}

\* the result is the score of the prompt
scoreOfPrompt(result, prompt) ==
  /\ result.threatProbability = ScoreOf[prompt].threatProbability
  /\ result.confidence = ScoreOf[prompt].confidence
  /\ result.detectedPatterns = ScoreOf[prompt].detectedPatterns

\* C24: in every interleaving of analyze calls for the same agent, a call
\* that read the cache before any call wrote the key computes its result
\* with cached=false, two such calls for the same prompt hold identical
\* results, and every entry of the cache is the score of the prompt of its
\* key, stored with cached=false, whichever call wrote last.
C24_BenignRace ==
  /\ \A i \in Scored : scoreOfPrompt(pending[i].threat, pending[i].prompt)
  /\ \A i \in Scored :
       (pending[i].pc = "set" \/ store[KeyOf[ConcAgent, pending[i].prompt]] = Absent)
         => ~pending[i].threat.cached
  /\ \A i, j \in Scored :
       ( /\ pending[i].prompt = pending[j].prompt
         /\ ~pending[i].threat.cached /\ ~pending[j].threat.cached )
         => pending[i].threat = pending[j].threat
  /\ \A p \in ConcPrompts :
       store[KeyOf[ConcAgent, p]] # Absent =>
         /\ scoreOfPrompt(parse(store[KeyOf[ConcAgent, p]].val), p)
         /\ parse(store[KeyOf[ConcAgent, p]].val).cached = FALSE
  /\ \A k \in Keys \ {KeyOf[ConcAgent, p] : p \in ConcPrompts} : store[k] = Absent

\* two calls for the same prompt both missed the cache, both computed the
\* result and both wrote it; the cache holds the one entry
C24_Witness ==
  /\ pending[1].pc = "scored"
  /\ pending[2].pc = "scored"
  /\ pending[1].prompt = pending[2].prompt
  /\ ~pending[1].threat.cached
  /\ ~pending[2].threat.cached
  /\ pending[1].threat = pending[2].threat
  /\ store[KeyOf[ConcAgent, pending[1].prompt]] # Absent
  /\ parse(store[KeyOf[ConcAgent, pending[1].prompt]].val) = pending[1].threat

\* the active set is the built-in policy alone
Fallback(active) ==
  /\ Len(active) = 1
  /\ active[1].name = "basic_security"

\* the active set is what a load takes from the source
loadedFrom(active, src) ==
  /\ Range(active) = enabledOf(src)
  /\ Len(active) = Cardinality(enabledOf(src))
  /\ \A i, j \in 1..Len(active) : i < j => active[i].priority <= active[j].priority

\* C25: reloadPolicies runs the complete load again and replaces the active
\* set with its outcome, whatever the set was: over a usable source the
\* engine holds the enabled policies of that source, over an unreadable or
\* invalid source the built-in policy, and over a source that has not
\* changed since the last load the same policies in the same order.
C25_ReloadReplaces ==
  [][ (call'.op = "reloadPolicies" /\ ReloadPolicies) =>
        /\ Unusable(source) => Fallback(policies')
        /\ ~Unusable(source) => loadedFrom(policies', source)
        /\ JustLoaded => policies' = policies
    ]_vars

\* the engine was in the fallback state, the source was replaced by a
\* valid one, and the reload took its four policies
C25_Witness ==
  /\ call.op = "reloadPolicies"
  /\ Fallback(call.before)
  /\ source = SrcFull
  /\ policies = <<polInjection, polFrequency, polLowRisk, polModify>>

\* ------------------------------------------------------------------------
\* The blockchain audit logger (policy/types.ts:48-288) over its client
\* (policy/types.ts:294-547).  Severities are in thousandths.
\* ------------------------------------------------------------------------

\* logSecurityEvent returned null
NullResult == [null |-> TRUE]

\* what the chain does with one request of the client
ChainAnswers == {"mined", "reverted"}
\* what the contract answers to isAuthorizedLogger
AuthAnswers == {"authorized", "unauthorized", "error"}
\* whether ethers.Contract can be constructed for the configured address
ContractAnswers == {"constructed", "throws"}

\* the evidence of an event: a plain object, or one JSON.stringify rejects
Evidences == {"plain", "circular"}
AuditSeverities == {0, 455, 1000, 1500}
AuditEvents ==
  [agentId : {"agent-1"}, eventType : {"threat_detected", "rate_limit_exceeded"},
   severity : AuditSeverities, evidence : Evidences]

\* BlockchainAuditLogger.hashEvidence (policy/types.ts:252-255)
hashEvidence(evidence) ==
  IF evidence = "circular"
  THEN [threw |-> TRUE, error |-> "Converting circular structure to JSON"]
  ELSE [threw |-> FALSE, hash |-> <<"sha256", evidence>>]

\* Math.min(Math.round(event.severity * 100), 100) (policy/types.ts:101)
blockchainSeverity(severity) == Min((severity + 5) \div 10, 100)

\* SeiClient.logSecurityEvent (policy/types.ts:344-394): throws without a
\* contract, and turns a rejected transaction into a failure value
seiLogSecurityEvent(auditContract, agentId, eventType, severity, evidenceHash, chain) ==
  IF ~auditContract
  THEN [threw |-> TRUE, contacted |-> FALSE, error |-> "Contract not initialized"]
  ELSE IF chain = "mined"
  THEN [threw |-> FALSE, contacted |-> TRUE,
        result |-> [success |-> TRUE,
                    transactionHash |-> <<"tx", agentId, eventType, severity, evidenceHash>>]]
  ELSE [threw |-> FALSE, contacted |-> TRUE,
        result |-> [success |-> FALSE, error |-> "transaction reverted"]]

\* the try block of logSecurityEvent (policy/types.ts:96-129)
logSecurityEventBody(logger, event, chain) ==
  LET evidenceHash == hashEvidence(event.evidence)
  IN IF evidenceHash.threw
     THEN [threw |-> TRUE, contacted |-> FALSE, error |-> evidenceHash.error]
     ELSE seiLogSecurityEvent(logger.auditContract, event.agentId, event.eventType,
                              blockchainSeverity(event.severity), evidenceHash.hash, chain)

\* a logger that lets the exception of its client escape
logSecurityEvent_rethrows(logger, event, chain) ==
  IF ~logger.enabled \/ ~logger.initialized
  THEN [threw |-> FALSE, contacted |-> FALSE, result |-> NullResult]
  ELSE logSecurityEventBody(logger, event, chain)

\* BlockchainAuditLogger.logSecurityEvent (policy/types.ts:90-139)
logSecurityEvent(logger, event, chain) ==
  IF ~logger.enabled \/ ~logger.initialized
  THEN [threw |-> FALSE, contacted |-> FALSE, result |-> NullResult]
  ELSE LET body == logSecurityEventBody(logger, event, chain)
       IN IF body.threw
          THEN [threw |-> FALSE, contacted |-> body.contacted,
                result |-> [success |-> FALSE, error |-> body.error]]
          ELSE body

\* SeiClient.isAuthorizedLogger (policy/types.ts:481-492)
isAuthorizedLogger(auditContract, answer) ==
  IF ~auditContract THEN FALSE ELSE answer = "authorized"

\* BlockchainAuditLogger.initialize (policy/types.ts:61-85) with
\* SeiClient.initializeContract (policy/types.ts:317-339)
initialize(logger, contract, answer) ==
  IF ~logger.enabled
  THEN [logger |-> logger, outcome |-> "disabled"]
  ELSE IF contract = "throws"
  THEN [logger |-> [logger EXCEPT !.enabled = FALSE], outcome |-> "failed"]
  ELSE IF ~isAuthorizedLogger(TRUE, answer)
  THEN [logger |-> [logger EXCEPT !.enabled = FALSE, !.auditContract = TRUE],
        outcome |-> "unauthorized"]
  ELSE [logger |-> [logger EXCEPT !.initialized = TRUE, !.auditContract = TRUE,
                                  !.authorizedOnce = TRUE],
        outcome |-> "initialized"]

\* BlockchainAuditLogger.isAvailable (policy/types.ts:237-239)
isAvailable(logger) == logger.enabled /\ logger.initialized

\* the constructor (policy/types.ts:53-56); authorizedOnce remembers that
\* some initialize found the signer authorized
InitAudit ==
  /\ now = 0
  /\ requestCounts = [a \in Agents |-> NoEntry]
  /\ store = [k \in CacheKeys |-> Absent]
  /\ source = SrcNone
  /\ policies = loadPolicies(source)
  /\ resp = NoResponse
  /\ call = NoCall
  /\ pending = NoPending
  /\ audit \in [enabled : BOOLEAN, initialized : {FALSE}, auditContract : {FALSE},
                authorizedOnce : {FALSE}]

Initialize ==
  \E contract \in ContractAnswers, answer \in AuthAnswers :
    LET r == initialize(audit, contract, answer)
    IN /\ audit' = r.logger
       /\ call' = [op |-> "initialize", before |-> audit, outcome |-> r.outcome]
       /\ resp' = NoResponse
       /\ UNCHANGED <<now, requestCounts, store, source, policies, pending>>

LogSecurityEvent ==
  \E event \in AuditEvents, chain \in ChainAnswers :
    LET r == logSecurityEvent(audit, event, chain)
    IN /\ call' = [op |-> "logSecurityEvent", before |-> audit, event |-> event,
                   chain |-> chain, threw |-> r.threw, contacted |-> r.contacted]
       /\ resp' = IF r.threw THEN NoResponse ELSE r.result
       /\ UNCHANGED <<now, requestCounts, store, source, policies, pending, audit>>

\* BlockchainAuditLogger.setEnabled (policy/types.ts:244-247)
SetEnabled ==
  \E enabled \in BOOLEAN :
    /\ audit' = [audit EXCEPT !.enabled = enabled]
    /\ call' = [op |-> "setEnabled", before |-> audit, enabled |-> enabled]
    /\ resp' = NoResponse
    /\ UNCHANGED <<now, requestCounts, store, source, policies, pending>>

NextAudit == Initialize \/ LogSecurityEvent \/ SetEnabled
SpecAudit == InitAudit /\ [][NextAudit]_vars

\* the request the client made failed: the transaction was rejected, or the
\* evidence could not be hashed
chainCallFailed ==
  /\ isAvailable(call.before)
  /\ call.chain = "reverted" \/ call.event.evidence = "circular"

\* C26: logSecurityEvent never throws and reports every outcome as a
\* value: null, without contacting the chain, whenever the logger is
\* disabled or not initialized, and a failure value with an error when
\* the chain call fails; the logger is available only after an initialize
\* that found the signer authorized, and a failed or unauthorized
\* initialize leaves it unavailable.
C26_AuditDegrades ==
  /\ (call.op = "logSecurityEvent") =>
       /\ ~call.threw
       /\ (~call.before.enabled \/ ~call.before.initialized) =>
            (resp = NullResult /\ ~call.contacted)
       /\ isAvailable(call.before) => resp # NullResult
       /\ chainCallFailed => (resp.success = FALSE /\ Len(resp.error) > 0)
  /\ isAvailable(audit) => audit.authorizedOnce
  /\ (call.op = "initialize" /\ call.outcome \in {"failed", "unauthorized"}) =>
       ~isAvailable(audit)

\* an available logger whose evidence could not be hashed answered with a
\* failure value
C26_Witness ==
  /\ call.op = "logSecurityEvent"
  /\ isAvailable(call.before)
  /\ call.event.evidence = "circular"
  /\ resp = [success |-> FALSE, error |-> "Converting circular structure to JSON"]

\* the step is an analyzeRequest call that was given a blank prompt
rejectedBlank ==
  /\ now' = now
  /\ call'.op = "analyzeRequest"
  /\ BlankOf[call'.prompt]

\* C27: a request rejected for an empty or whitespace-only prompt changes
\* no state: every agent's counter (count and resetTime) and the cache
\* contents are after the call what they were before it, so the rejected
\* request consumes no quota and neither opens nor resets a window.
C27_RejectedLeavesState ==
  [][ rejectedBlank =>
        /\ resp'.reason = "Empty prompt not allowed"
        /\ requestCounts' = requestCounts
        /\ store' = store
        /\ ~call'.scored /\ ~call'.cacheRead /\ ~call'.cacheWrite
    ]_vars

\* a blank request arrived after the agent's window had run out, and the
\* expired entry is still the one the map holds
C27_Witness ==
  /\ call.op = "analyzeRequest"
  /\ BlankOf[call.prompt]
  /\ resp.reason = "Empty prompt not allowed"
  /\ call.before # NoEntry
  /\ now > call.before.resetTime
  /\ requestCounts[call.agentId] = call.before

\* ------------------------------------------------------------------------
\* The quota an agent has used, against the calls that were made for it.
\* The trace keeps, for every analyzeRequest call so far, whom it was for,
\* when it ran and whether its prompt was blank.
\* ------------------------------------------------------------------------
QuotaPrompts == {BlankPrompt, InjectionPrompt}

InitQuota ==
  /\ now = 0
  /\ requestCounts = [a \in Agents |-> NoEntry]
  /\ store = [k \in Keys |-> Absent]
  /\ source = SrcNone
  /\ policies = loadPolicies(source)
  /\ resp = NoResponse
  /\ call = [op |-> "none", made |-> <<>>]
  /\ pending = NoPending
  /\ audit = NoAudit

QuotaRequest(a, p, fault) ==
  LET r == analyzeRequest(requestCounts, store, policies, now, a, p, TRUE, TRUE, fault)
  IN /\ resp' = r.resp
     /\ requestCounts' = r.counts
     /\ store' = r.store
     /\ call' = [made |-> Append(call.made,
                                 [agentId |-> a, time |-> now, blank |-> BlankOf[p]])]
                @@ r.call
     /\ UNCHANGED <<now, source, policies, pending, audit>>

ServeQuota ==
  \E a \in Agents, p \in QuotaPrompts, fault \in Faults :
    /\ Len(call.made) < MaxCalls
    /\ QuotaRequest(a, p, fault)

NextQuota == ServeQuota \/ Tick
SpecQuota == InitQuota /\ [][NextQuota]_vars

\* the calls with a non-empty prompt made for the agent from the instant t on
madeSince(a, t) ==
  {i \in DOMAIN call.made :
     call.made[i].agentId = a /\ ~call.made[i].blank /\ call.made[i].time >= t}

\* C28: an agent's stored count is the number of analyzeRequest calls with
\* a non-empty prompt made for that agent since its current window opened,
\* whatever became of them: calls answered from the cache and calls that
\* ended in the fail-closed response are counted, calls for other agents
\* and blank calls are not; an agent without an entry has made none.
C28_CountIsCallsMade ==
  \A a \in Agents :
    IF requestCounts[a] = NoEntry
    THEN madeSince(a, 0) = {}
    ELSE requestCounts[a].count =
           Cardinality(madeSince(a, requestCounts[a].resetTime - RateWindowMs))

\* three calls with a non-empty prompt of one agent in one window, the
\* last of them answered from the cache, and a stored count of three
C28_Witness ==
  /\ Len(call.made) = 3
  /\ \A i \in 1..3 : call.made[i].agentId = call.agentId /\ ~call.made[i].blank
  /\ call.op = "analyzeRequest"
  /\ resp.evidence.cached
  /\ requestCounts[call.agentId].count = 3
  /\ call.made[1].time >= requestCounts[call.agentId].resetTime - RateWindowMs

\* the verdict of the path without any policy, as the thresholds and the
\* rate limit give it
heuristicOnly(threatProbability, requestCount) ==
  IF requestCount > 100
  THEN [action |-> "block", reason |-> "Rate limit exceeded"]
  ELSE IF threatProbability > 70
  THEN [action |-> "block", reason |-> "High risk content detected"]
  ELSE IF threatProbability > 30
  THEN [action |-> "warn", reason |-> "Moderate risk content detected"]
  ELSE [action |-> "allow", reason |-> "Request appears safe"]

\* analyzeRequest answered a non-empty prompt while only the built-in
\* policy was active
answeredInFallback ==
  /\ call.op = "analyzeRequest"
  /\ ~BlankOf[call.prompt]
  /\ ~call.thrown
  /\ Fallback(policies)

\* C29: in the fallback state the action and the reason that analyzeRequest
\* returns for a non-empty prompt are those of the path without policies:
\* block "High risk content detected" iff the threat probability is above
\* 0.7, warn iff it is above 0.3 and at most 0.7, allow otherwise, and the
\* rate limit overrides all three; they are also what the verdict over an
\* empty list of policy results is.
C29_FallbackIsHeuristic ==
  answeredInFallback =>
    LET expected == heuristicOnly(call.threat.threatProbability, call.requestCount)
        unruled == resolveVerdict(<<>>, call.threat.threatProbability, call.requestCount)
    IN /\ resp.action = expected.action
       /\ resp.reason = expected.reason
       /\ resp.action = unruled.action
       /\ resp.reason = unruled.reason

\* the built-in policy matched a prompt above 0.7 within the limit, and the
\* answer is the block of the thresholds
C29_Witness ==
  /\ answeredInFallback
  /\ Len(call.results) = 1
  /\ call.threat.threatProbability > 70
  /\ call.requestCount <= 100
  /\ resp.action = "block"
  /\ resp.reason = "High risk content detected"

\* ------------------------------------------------------------------------
\* The request as the caller hands it over (types.ts:1-6): agentId and
\* prompt, and the timestamp and the context the caller chose.
\* ------------------------------------------------------------------------
NoContext == [absent |-> TRUE]
RequestContexts == {NoContext, [role |-> "admin", trusted |-> TRUE]}
\* the timestamps a caller may claim: the start, and an instant past the
\* end of the first window
Timestamps == {0, RateWindowMs + 1}
MetaPrompts == {BlankPrompt, HeuristicHighPrompt, InjectionPrompt}
MetaSources == {SrcFull, Unreadable}
Requests ==
  [agentId : Agents, prompt : MetaPrompts, timestamp : Timestamps,
   context : RequestContexts]

\* index.ts:42-49: the policy context with the timestamp of the request
requestContext(request, threatResult, requestCount) ==
  policyContext(request.agentId, request.prompt, threatResult, requestCount)
    @@ [timestamp |-> request.timestamp]

\* index.ts:39-110 on the request record: from the return of
\* threatDetector.analyze on
afterScore(request, tallied, scored, active) ==
  afterPolicies(tallied, scored,
                evaluatePolicies(active,
                                 requestContext(request, scored.result, tallied.count)),
                request.agentId, request.prompt, "none")

\* a request that is counted on the clock its caller claims
analyzeRequestOf_callerClock(request, counts, st, active, t) ==
  IF BlankOf[request.prompt]
  THEN [ resp |-> rejectEmpty, counts |-> counts, store |-> st,
         call |-> trace(request.agentId, request.prompt) ]
  ELSE afterScore(request,
                  getRequestCount(counts, request.agentId, request.timestamp),
                  analyze(st, request.prompt, request.agentId, t, TRUE, TRUE),
                  active)

\* analyzeRequest (index.ts:18-110) on the request record, over a cache that
\* answers
analyzeRequestOf(request, counts, st, active, t) ==
  IF BlankOf[request.prompt]
  THEN [ resp |-> rejectEmpty, counts |-> counts, store |-> st,
         call |-> trace(request.agentId, request.prompt) ]
  ELSE afterScore(request,
                  getRequestCount(counts, request.agentId, t),
                  analyze(st, request.prompt, request.agentId, t, TRUE, TRUE),
                  active)

InitMeta ==
  /\ now = 0
  /\ requestCounts = [a \in Agents |-> NoEntry]
  /\ store = [k \in Keys |-> Absent]
  /\ source \in MetaSources
  /\ policies = loadPolicies(source)
  /\ resp = NoResponse
  /\ call = NoCall
  /\ pending = NoPending
  /\ audit = NoAudit

\* analyzeRequest returns r to the caller of the request
RequestReturns(request, r) ==
  /\ resp' = r.resp
  /\ requestCounts' = r.counts
  /\ store' = r.store
  /\ call' = [timestamp |-> request.timestamp, context |-> request.context] @@ r.call
  /\ UNCHANGED <<now, source, policies, pending, audit>>

ServeRequest ==
  \E request \in Requests :
    /\ totalCount(requestCounts, Agents) < MaxCount
    /\ RequestReturns(request,
                      analyzeRequestOf(request, requestCounts, store, policies, now))

\* the clock reaches the end of the first window
TickMeta == TickTo({RateWindowMs + MaxJitter})

NextMeta == ServeRequest \/ TickMeta
SpecMeta == InitMeta /\ [][NextMeta]_vars

\* what the verdict is made of: action, reason, risk score and evidence
verdictOf(r) ==
  [ action |-> r.action, reason |-> r.reason,
    riskScore |-> r.riskScore, evidence |-> r.evidence ]

\* the outcome of a call is the verdict and the state of the step
sameAsStep(other) ==
  /\ verdictOf(other.resp) = verdictOf(resp')
  /\ other.counts = requestCounts'
  /\ other.store = store'

\* C30: the verdict does not depend on what the caller supplies besides
\* agentId and prompt: run against the same counters, cache, policy set and
\* clock, the request with any other timestamp and any other context gets
\* the same action, reason, risk score and evidence, and leaves the same
\* counters and the same cache behind.
C30_MetadataIgnored ==
  [][ (now' = now /\ call'.op = "analyzeRequest") =>
        \A timestamp \in Timestamps, context \in RequestContexts :
          sameAsStep(analyzeRequestOf([agentId |-> call'.agentId,
                                       prompt |-> call'.prompt,
                                       timestamp |-> timestamp,
                                       context |-> context],
                                      requestCounts, store, policies, now))
    ]_vars

\* a request that claims an instant past the end of the window its agent is
\* in was counted in that window, and a policy decided it
C30_Witness ==
  /\ call.op = "analyzeRequest"
  /\ call.timestamp = RateWindowMs + 1
  /\ call.context # NoContext
  /\ now = 0
  /\ requestCounts[call.agentId] = [count |-> 2, resetTime |-> RateWindowMs]
  /\ Len(call.results) > 0

====
